---- MODULE Spec2Model ----
(***************************************************************************)
(* Model of the offline-first synchronisation core of edda:                *)
(*   src/src/sync.rs                 OfflineQueue, LocalCache, SyncManager *)
(*   src/src/core/task.rs            Task, TaskEngine                      *)
(*   src/src/storage/task_storage.rs SqliteTaskStorage                     *)
(*   src/src/github.rs               GitHubSyncProvider                    *)
(*                                                                         *)
(* Eleven specifications share the variables:                              *)
(*   SpecQueue   concurrent callers of one OfflineQueue, with the RwLock   *)
(*               and the steps enqueue takes while it holds the lock;      *)
(*   SpecSync    concurrent callers of one SyncManager, one step per       *)
(*               .await of a method (each awaited call runs under its own  *)
(*               lock or inside the store and is atomic);                  *)
(*   SpecSolo    the same SyncManager with a single caller;                *)
(*   SpecEngine  a single caller of one TaskEngine;                        *)
(*   SpecResolver a single caller of one ConflictResolver;                 *)
(*   SpecMixed   a single caller of a SyncManager and a TaskEngine that    *)
(*               share one store, and of the resolver;                     *)
(*   SpecCache   a single caller of one LocalCache;                        *)
(*   SpecUrgency a single caller of Task::urgency_score;                   *)
(*   SpecProvider a single caller of GitHubSyncProvider::push_tasks;       *)
(*   SpecUpdates concurrent callers of SyncManager::update_task;           *)
(*   SpecLocks   concurrent callers of one OfflineQueue and one LocalCache *)
(*               with the steps each call takes on its RwLocks, and        *)
(*               SpecLocksFair, the same under fair scheduling.            *)
(* Option<T> is a sequence of length at most one: None is <<>> and Some(x) *)
(* is <<x>>.  Vec indices are 0-based in the code and 1-based here.        *)
(***************************************************************************)
EXTENDS Integers, Sequences, FiniteSets, TLC

\* ---------------------------------------------------------------- bounds

\* Largest queue capacity tried (max_operations ranges over 0..MaxCap).
MaxCap == 2

\* Number of enqueue calls a run makes at most.
MaxEnq == 3

\* Longest index list handed to remove_operations.
MaxIdxLen == 2

\* Number of SyncManager calls that may enqueue, at most, in a run.
MaxMut == 2

\* Number of TaskEngine calls and Task method calls a run makes at most.
MaxCalls == 3

\* ---------------------------------------------------------------- state

VARIABLES
    max_operations,   \* OfflineQueue.max_operations
    operations,       \* OfflineQueue.operations, the Vec behind the RwLock
    qlock,            \* that RwLock: [writer |-> 0 or a caller, readers |-> callers]
    qcall,            \* SpecQueue: each caller's position in its call and its locals
    next_seq,         \* history: number of pushes that have taken effect
    removed_any,      \* history: a remove_operations or clear has taken effect
    store,            \* the tasks table: id -> row
    next_rowid,       \* the AUTOINCREMENT counter of the tasks table
    cache,            \* LocalCache.tasks: id -> CachedTask
    last_sync,        \* LocalCache.last_sync
    now,              \* the clock Utc::now() reads
    mcall,            \* SyncManager callers: position in the call and locals
    mhist,            \* history of the SyncManager calls that have returned
    ecall,            \* SpecEngine: the last call on the TaskEngine and its result
    ecalls,           \* SpecEngine: number of calls made
    default_strategy, \* ConflictResolver.default_strategy
    rcall,            \* the last call on the ConflictResolver and its result
    documents,        \* LocalCache.documents: id -> CachedDocument
    ccall,            \* SpecCache: the last call on the LocalCache and what it found
    issue_mapping,    \* GitHubSyncProvider.issue_mapping: task id -> issue number
    issues,           \* the issues of the GitHub repository, by number
    gcall,            \* the last push_tasks call on the provider and its result
    klock,            \* the RwLocks of the LocalCache: tasks, documents, last_sync
    kcall             \* SpecLocks: each caller's position in its LocalCache call

qvars == <<max_operations, operations, qlock, qcall, next_seq, removed_any>>

evars == <<ecall, ecalls>>

rvars == <<default_strategy, rcall>>

cvars == <<documents, ccall>>

gvars == <<issue_mapping, issues, gcall>>

kvars == <<klock, kcall>>

mvars_but_mcall == <<store, next_rowid, cache, last_sync, now, mhist, evars, rvars, cvars, gvars, kvars>>

mvars == <<store, next_rowid, cache, last_sync, now, mcall, mhist, evars, rvars, cvars, gvars, kvars>>

vars == <<qvars, mvars>>

None == <<>>

\* No call has been made on the TaskEngine or on the ConflictResolver.
NoCall == [fn |-> "none"]

Some(x) == <<x>>

\* Option::unwrap_or
UnwrapOr(o, d) == IF o = None THEN d ELSE o[1]

\* ------------------------------------------------------------- Task

Uuids == {"u1", "u2"}

\* The readings of the clock in a run.
Times == 0..2

\* The ids the tasks table hands out in a run (AUTOINCREMENT counts from 1).
RowIds == 1..2

\* Descriptions the callers use; the first two are empty after trim().
Descriptions == {"", " ", "a", "b"}

\* description.trim().is_empty()
IsBlank(d) == d \in {"", " "}

\* Task::new(description), with the uuid Uuid::new_v4() drew and the clock at t.
NewTask(description, uuid, t) ==
    [id |-> None, uuid |-> uuid, description |-> description, status |-> "Pending",
     priority |-> None, due_date |-> None, start_date |-> None, end_date |-> None,
     entry_date |-> t, modified_date |-> t, tags |-> {}, annotations |-> <<>>]

\* impl Display for TaskStatus
StatusToString(st) ==
    CASE st = "Pending" -> "pending"
      [] st = "Completed" -> "completed"
      [] st = "Deleted" -> "deleted"
      [] st = "Waiting" -> "waiting"

\* impl FromStr for TaskStatus, on the texts the status column admits.
ParseStatus(txt) ==
    CASE txt = "pending" -> "Pending"
      [] txt = "completed" -> "Completed"
      [] txt = "deleted" -> "Deleted"
      [] txt = "waiting" -> "Waiting"

\* impl Display for Priority; Number(n) is the number n, the others their names.
PriorityToString(pr) ==
    CASE pr = "High" -> "H"
      [] pr = "Medium" -> "M"
      [] pr = "Low" -> "L"
      [] OTHER -> ToString(pr)

\* impl FromStr for Priority, on the texts the priority column admits.
ParsePriority(txt) ==
    CASE txt = "H" -> "High"
      [] txt = "M" -> "Medium"
      [] txt = "L" -> "Low"
      [] OTHER -> CHOOSE n \in 0..9 : ToString(n) = txt

\* task.priority.as_ref().map(|p| p.to_string())
OptPriorityToString(o) == IF o = None THEN None ELSE Some(PriorityToString(o[1]))

\* the priority column, parsed when it is not NULL
OptParsePriority(o) == IF o = None THEN None ELSE Some(ParsePriority(o[1]))

\* ------------------------------------------------- SqliteTaskStorage

\* The columns the INSERT and the UPDATE bind from a Task.
TaskToRow(task) ==
    [uuid |-> task.uuid, description |-> task.description,
     status |-> StatusToString(task.status),
     priority |-> OptPriorityToString(task.priority), due_date |-> task.due_date,
     start_date |-> task.start_date, end_date |-> task.end_date,
     entry_date |-> task.entry_date, modified_date |-> task.modified_date,
     tags |-> task.tags, annotations |-> task.annotations]

\* row_to_task
row_to_task(id, row) ==
    [id |-> Some(id), uuid |-> row.uuid, description |-> row.description,
     status |-> ParseStatus(row.status),
     priority |-> OptParsePriority(row.priority), due_date |-> row.due_date,
     start_date |-> row.start_date, end_date |-> row.end_date,
     entry_date |-> row.entry_date, modified_date |-> row.modified_date,
     tags |-> row.tags, annotations |-> row.annotations]

\* The CHECK constraints of the tasks table on the columns a Task binds.
RowChecks(row) ==
    /\ ~IsBlank(row.description)
    /\ row.status \in {"pending", "completed", "deleted", "waiting"}
    /\ row.priority = None \/ row.priority[1] \in {"H", "M", "L"} \cup {ToString(n) : n \in 0..9}

Ok(v) == [ok |-> TRUE, val |-> v]

Err(kind) == [ok |-> FALSE, err |-> kind]

\* SqliteTaskStorage::create_task at time t: <<result, table, counter>>.
\* The INSERT fails on a CHECK constraint or on a uuid the table holds.
storage_create_task(st, rowid, task, t) ==
    LET stamped == [task EXCEPT !.entry_date = t, !.modified_date = t]
        row == TaskToRow(stamped)
    IN  IF RowChecks(row) /\ \A i \in DOMAIN st : st[i].uuid # row.uuid
        THEN <<Ok([stamped EXCEPT !.id = Some(rowid)]),
               [i \in DOMAIN st \cup {rowid} |-> IF i = rowid THEN row ELSE st[i]],
               rowid + 1>>
        ELSE <<Err("Storage"), st, rowid>>

\* SqliteTaskStorage::get_task_by_id
storage_get_task_by_id(st, id) ==
    IF id \in DOMAIN st THEN Some(row_to_task(id, st[id])) ELSE None

\* The UPDATE statement as it would be if it set every column
UpdatedRowWritesAll(old, new) == new

\* The columns the UPDATE statement sets (uuid and entry_date are not among them).
UpdatedRow(old, new) ==
    [new EXCEPT !.uuid = old.uuid, !.entry_date = old.entry_date]

\* update_task as it would be if it kept the caller's modified timestamp
UpdateKeepsCallerStamp(st, task, t) ==
    IF task.id = None THEN <<Err("Validation"), st>>
    ELSE LET id == task.id[1]
         IN  IF id \notin DOMAIN st THEN <<Ok(task), st>>
             ELSE IF RowChecks(TaskToRow(task))
                  THEN <<Ok(task), [st EXCEPT ![id] = UpdatedRow(st[id], TaskToRow(task))]>>
                  ELSE <<Err("Storage"), st>>

\* SqliteTaskStorage::update_task at time t: <<result, table>>.  An UPDATE
\* that matches no row succeeds and changes nothing.
storage_update_task(st, task, t) ==
    IF task.id = None THEN <<Err("Validation"), st>>
    ELSE LET stamped == [task EXCEPT !.modified_date = t]
             id == task.id[1]
         IN  IF id \notin DOMAIN st THEN <<Ok(stamped), st>>
             ELSE IF RowChecks(TaskToRow(stamped))
                  THEN <<Ok(stamped), [st EXCEPT ![id] = UpdatedRow(st[id], TaskToRow(stamped))]>>
                  ELSE <<Err("Storage"), st>>

\* SqliteTaskStorage::delete_task: <<rows_affected > 0, table>>.
storage_delete_task(st, id) ==
    IF id \in DOMAIN st
    THEN <<TRUE, [i \in DOMAIN st \ {id} |-> st[i]]>>
    ELSE <<FALSE, st>>

\* The rows list_tasks(None) selects: the default filter leaves the deleted out.
ListedIds(st) == {i \in DOMAIN st : st[i].status # "deleted"}

\* ORDER BY modified_date DESC: every order of the selected rows that the clause
\* admits (it leaves the order of rows with equal modified_date open).
ListOrders(st) ==
    LET ids == ListedIds(st)
        n == Cardinality(ids)
    IN  { s \in [1..n -> ids] :
            /\ \A i, j \in 1..n : i # j => s[i] # s[j]
            /\ \A i, j \in 1..n : i < j => st[s[i]].modified_date >= st[s[j]].modified_date }

\* SqliteTaskStorage::list_tasks(None), for one admitted order of the rows.
storage_list_tasks(st, order) == [i \in DOMAIN order |-> row_to_task(order[i], st[order[i]])]

\* --------------------------------------------------------- LocalCache

\* cache_task as it would be if an entry it replaces kept its sync status
CacheTaskKeepsStatus(c, task, version, t) ==
    LET key == UnwrapOr(task.id, 0)
        entry == [task |-> task, last_modified |-> t,
                  sync_status |-> IF key \in DOMAIN c THEN c[key].sync_status ELSE "Pending",
                  version |-> version]
    IN  [i \in DOMAIN c \cup {key} |-> IF i = key THEN entry ELSE c[i]]

\* LocalCache::cache_task at time t
cache_task(c, task, version, t) ==
    LET key == UnwrapOr(task.id, 0)
        entry == [task |-> task, last_modified |-> t, sync_status |-> "Pending",
                  version |-> version]
    IN  [i \in DOMAIN c \cup {key} |-> IF i = key THEN entry ELSE c[i]]

\* LocalCache::get_cached_task
get_cached_task(c, task_id) == IF task_id \in DOMAIN c THEN Some(c[task_id]) ELSE None

\* update_task_sync_status as it would be if it counted the change in the
\* version and made an entry for an id that has none
UpdateStatusUpserts(c, task_id, status, t) ==
    IF task_id \in DOMAIN c
    THEN [c EXCEPT ![task_id].sync_status = status, ![task_id].last_modified = t,
                   ![task_id].version = @ + 1]
    ELSE [i \in DOMAIN c \cup {task_id} |->
            IF i = task_id
            THEN [task |-> None, last_modified |-> t, sync_status |-> status, version |-> 0]
            ELSE c[i]]

\* LocalCache::update_task_sync_status at time t
update_task_sync_status(c, task_id, status, t) ==
    IF task_id \in DOMAIN c
    THEN [c EXCEPT ![task_id].sync_status = status, ![task_id].last_modified = t]
    ELSE c

\* LocalCache::cache_document at time t
cache_document(d, document, version, t) ==
    LET key == UnwrapOr(document.id, 0)
        entry == [document |-> document, last_modified |-> t, sync_status |-> "Pending",
                  version |-> version]
    IN  [i \in DOMAIN d \cup {key} |-> IF i = key THEN entry ELSE d[i]]

\* LocalCache::update_document_sync_status at time t
update_document_sync_status(d, document_id, status, t) ==
    IF document_id \in DOMAIN d
    THEN [d EXCEPT ![document_id].sync_status = status, ![document_id].last_modified = t]
    ELSE d

\* get_all_cached_tasks as it would be if it never found a task
GetNoCachedTasks(c) == {}

\* LocalCache::get_all_cached_tasks, as the set of the values of the map
get_all_cached_tasks(c) == {c[i] : i \in DOMAIN c}

\* ------------------------------------------------------- OfflineQueue

Callers == {1, 2}

\* The payloads the queue's callers enqueue (SyncOperation without its position
\* in the history, which the push stamps as seq).
QueueInputs ==
    { [kind |-> "CreateTask", task_id |-> 1],
      [kind |-> "DeleteTask", task_id |-> 1] }

VecPushFront(v, x) == <<x>> \o v

\* Vec::push
VecPush(v, x) == Append(v, x)

\* Vec::remove(index), index 0-based and in range.
VecRemove(v, index) ==
    [i \in 1..(Len(v) - 1) |-> IF i <= index THEN v[i] ELSE v[i + 1]]

\* sorted_indices.sort_by(|a, b| b.cmp(a)): insertion of x into a descending list.
RECURSIVE InsertDesc(_, _)
InsertDesc(x, s) ==
    IF s = <<>> THEN <<x>>
    ELSE IF x >= Head(s) THEN <<x>> \o s
    ELSE <<Head(s)>> \o InsertDesc(x, Tail(s))

\* The same insertion into an ascending list.
RECURSIVE InsertAscending(_, _)
InsertAscending(x, s) ==
    IF s = <<>> THEN <<x>>
    ELSE IF x <= Head(s) THEN <<x>> \o s
    ELSE <<Head(s)>> \o InsertAscending(x, Tail(s))

InsertSorted(x, s) == InsertDesc(x, s)

RECURSIVE SortIndices(_)
SortIndices(s) ==
    IF s = <<>> THEN <<>> ELSE InsertSorted(Head(s), SortIndices(Tail(s)))

\* The loop of remove_operations over the sorted indices.
RECURSIVE RemoveLoop(_, _)
RemoveLoop(ops, sorted) ==
    IF sorted = <<>> THEN ops
    ELSE IF Head(sorted) < Len(ops)
         THEN RemoveLoop(VecRemove(ops, Head(sorted)), Tail(sorted))
         ELSE RemoveLoop(ops, Tail(sorted))

\* OfflineQueue::remove_operations, the Vec it leaves.
remove_operations(ops, indices) == RemoveLoop(ops, SortIndices(indices))

AtCapacityOffByOne(ops, cap) == Len(ops) > cap

\* OfflineQueue::enqueue, the test that decides the eviction.
AtCapacity(ops, cap) == Len(ops) >= cap

CanReadBesideWriter(lock) == TRUE

\* RwLock::read succeeds: no writer holds the lock.
CanRead(lock) == lock.writer = 0

\* RwLock::write succeeds: nobody holds the lock.
CanWrite(lock) == lock.writer = 0 /\ lock.readers = {}

Unlocked == [writer |-> 0, readers |-> {}]

Idle == [pc |-> "idle"]

\* The fields of LocalCache, each behind its own RwLock.
CacheLocks == {"tasks", "documents", "last_sync"}

\* All index lists of length at most MaxIdxLen over 0..MaxCap (MaxCap is out of
\* range for every queue).
IndexLists ==
    UNION { [1..n -> 0..MaxCap] : n \in 0..MaxIdxLen }

\* A caller calls fn and waits for the lock fn takes.  The arguments of the call
\* are read when the lock is acquired: nothing observes them before.
WaitPc(fn) ==
    CASE fn = "enqueue" -> "enq_wait"
      [] fn = "remove_operations" -> "rm_wait"
      [] fn = "clear" -> "clr_wait"
      [] OTHER -> "rd_wait"

EnqueuesStarted ==
    next_seq + Cardinality({q \in Callers : qcall[q].pc \in {"enq_wait", "enq_check", "enq_push"}})

QueueCall(p, fn) ==
    /\ qcall[p].pc = "idle"
    /\ fn = "enqueue" => EnqueuesStarted < MaxEnq
    /\ qcall' = [qcall EXCEPT ![p] = [pc |-> WaitPc(fn), fn |-> fn]]
    /\ UNCHANGED <<max_operations, operations, qlock, next_seq, removed_any, mvars>>

\* enqueue: let mut ops = self.operations.write().await
EnqAcquire(p, operation) ==
    /\ qcall[p].pc = "enq_wait"
    /\ CanWrite(qlock)
    /\ qlock' = [qlock EXCEPT !.writer = p]
    /\ qcall' = [qcall EXCEPT ![p] = [pc |-> "enq_check", operation |-> operation]]
    /\ UNCHANGED <<max_operations, operations, next_seq, removed_any, mvars>>

\* if ops.len() >= self.max_operations { ops.remove(0); }
\* Vec::remove(0) on an empty Vec panics; the unwinding drops the guard.
EnqCheck(p) ==
    /\ qcall[p].pc = "enq_check"
    /\ IF AtCapacity(operations, max_operations)
       THEN IF Len(operations) = 0
            THEN /\ qcall' = [qcall EXCEPT ![p] = [pc |-> "panicked"]]
                 /\ qlock' = Unlocked
                 /\ UNCHANGED operations
            ELSE /\ operations' = VecRemove(operations, 0)
                 /\ qcall' = [qcall EXCEPT ![p] =
                        [pc |-> "enq_push", operation |-> qcall[p].operation, evicted |-> TRUE]]
                 /\ UNCHANGED qlock
       ELSE /\ qcall' = [qcall EXCEPT ![p] =
                   [pc |-> "enq_push", operation |-> qcall[p].operation, evicted |-> FALSE]]
            /\ UNCHANGED <<operations, qlock>>
    /\ UNCHANGED <<max_operations, next_seq, removed_any, mvars>>

\* ops.push(operation); Ok(()) and the guard is dropped.  The push stamps the
\* operation with its position in the history of pushes.
EnqPush(p) ==
    /\ qcall[p].pc = "enq_push"
    /\ operations' = VecPush(operations,
            [kind |-> qcall[p].operation.kind, task_id |-> qcall[p].operation.task_id,
             seq |-> next_seq + 1])
    /\ next_seq' = next_seq + 1
    /\ qlock' = Unlocked
    /\ qcall' = [qcall EXCEPT ![p] = Idle]
    /\ UNCHANGED <<max_operations, removed_any, mvars>>

\* remove_operations: let mut ops = self.operations.write().await
RmAcquire(p, indices) ==
    /\ qcall[p].pc = "rm_wait"
    /\ CanWrite(qlock)
    /\ qlock' = [qlock EXCEPT !.writer = p]
    /\ qcall' = [qcall EXCEPT ![p] =
            [pc |-> "rm_locked", indices |-> indices, before |-> operations]]
    /\ UNCHANGED <<max_operations, operations, next_seq, removed_any, mvars>>

\* The sort and the loop, under the guard.
RmApply(p) ==
    /\ qcall[p].pc = "rm_locked"
    /\ operations' = remove_operations(operations, qcall[p].indices)
    /\ removed_any' = TRUE
    /\ qcall' = [qcall EXCEPT ![p].pc = "rm_done"]
    /\ UNCHANGED <<max_operations, qlock, next_seq, mvars>>

\* The guard is dropped and the call returns.
RmReturn(p) ==
    /\ qcall[p].pc = "rm_done"
    /\ qlock' = Unlocked
    /\ qcall' = [qcall EXCEPT ![p] = Idle]
    /\ UNCHANGED <<max_operations, operations, next_seq, removed_any, mvars>>

\* clear: let mut ops = self.operations.write().await
ClearAcquire(p) ==
    /\ qcall[p].pc = "clr_wait"
    /\ CanWrite(qlock)
    /\ qlock' = [qlock EXCEPT !.writer = p]
    /\ qcall' = [qcall EXCEPT ![p] = [pc |-> "clr_locked"]]
    /\ UNCHANGED <<max_operations, operations, next_seq, removed_any, mvars>>

\* ops.clear() and the guard is dropped.
ClearApply(p) ==
    /\ qcall[p].pc = "clr_locked"
    /\ operations' = <<>>
    /\ removed_any' = TRUE
    /\ qlock' = Unlocked
    /\ qcall' = [qcall EXCEPT ![p] = Idle]
    /\ UNCHANGED <<max_operations, next_seq, mvars>>

\* get_pending_operations, len, is_empty: let ops = self.operations.read().await
ReadAcquire(p) ==
    /\ qcall[p].pc = "rd_wait"
    /\ CanRead(qlock)
    /\ qlock' = [qlock EXCEPT !.readers = @ \cup {p}]
    /\ qcall' = [qcall EXCEPT ![p].pc = "rd_locked"]
    /\ UNCHANGED <<max_operations, operations, next_seq, removed_any, mvars>>

\* ops.clone() / ops.len() / ops.is_empty()
ReadResult(fn, ops) ==
    CASE fn = "get_pending_operations" -> ops
      [] fn = "len" -> Len(ops)
      [] fn = "is_empty" -> (Len(ops) = 0)

\* The value is taken, the guard is dropped and the call returns it.
ReadFinish(p) ==
    /\ qcall[p].pc = "rd_locked"
    /\ qlock' = [qlock EXCEPT !.readers = @ \ {p}]
    /\ qcall' = [qcall EXCEPT ![p] =
            [pc |-> "rd_done", fn |-> qcall[p].fn, ret |-> ReadResult(qcall[p].fn, operations)]]
    /\ UNCHANGED <<max_operations, operations, next_seq, removed_any, mvars>>

\* The caller takes the returned value and is free to call again.
ReadReturn(p) ==
    /\ qcall[p].pc = "rd_done"
    /\ qcall' = [qcall EXCEPT ![p] = Idle]
    /\ UNCHANGED <<max_operations, operations, qlock, next_seq, removed_any, mvars>>

QueueFns ==
    {"enqueue", "remove_operations", "clear", "get_pending_operations", "len", "is_empty"}

\* OfflineQueue::new(max_operations), for every capacity tried.
InitQueue ==
    /\ max_operations \in 0..MaxCap
    /\ operations = <<>>
    /\ qlock = Unlocked
    /\ qcall = [p \in Callers |-> Idle]
    /\ next_seq = 0
    /\ removed_any = FALSE
    /\ store = <<>>
    /\ next_rowid = 1
    /\ cache = <<>>
    /\ last_sync = None
    /\ now = 0
    /\ mcall = [p \in Callers |-> Idle]
    /\ mhist = [clean |-> TRUE, deleted |-> {}]
    /\ ecall = NoCall
    /\ ecalls = 0
    /\ default_strategy = "LocalWins"
    /\ rcall = NoCall
    /\ documents = <<>>
    /\ ccall = NoCall
    /\ issue_mapping = <<>>
    /\ issues = <<>>
    /\ gcall = NoCall
    /\ klock = [l \in CacheLocks |-> Unlocked]
    /\ kcall = [p \in Callers |-> Idle]

NextQueue ==
    \E p \in Callers :
        \/ \E fn \in QueueFns : QueueCall(p, fn)
        \/ \E operation \in QueueInputs : EnqAcquire(p, operation)
        \/ EnqCheck(p)
        \/ EnqPush(p)
        \/ \E indices \in IndexLists : RmAcquire(p, indices)
        \/ RmApply(p)
        \/ RmReturn(p)
        \/ ClearAcquire(p)
        \/ ClearApply(p)
        \/ ReadAcquire(p)
        \/ ReadFinish(p)
        \/ ReadReturn(p)

SpecQueue == InitQueue /\ [][NextQueue]_vars

\* ------------------------------------------------- claims on the queue

\* The seq stamps of a Vec of operations, in the Vec's order.
Seqs(ops) == [i \in 1..Len(ops) |-> ops[i].seq]

\* No enqueue stands between its eviction and its push.
NoEnqueueInFlight == \A p \in Callers : qcall[p].pc # "enq_push"

\* C1: for every capacity N >= 1, once k >= N enqueue calls have completed on an
\* initially empty queue with no removal, the queue holds exactly the last N
\* operations enqueued, in enqueue order (so after N+1 calls the length is N and
\* the operation enqueued first is the one discarded).
C1_QueueKeepsLastN ==
    (/\ max_operations >= 1
     /\ ~removed_any
     /\ NoEnqueueInFlight
     /\ next_seq >= max_operations)
    => /\ Len(operations) = max_operations
       /\ Seqs(operations) = [i \in 1..max_operations |-> next_seq - max_operations + i]

C1_Witness ==
    /\ max_operations = 2
    /\ ~removed_any
    /\ NoEnqueueInFlight
    /\ next_seq = max_operations + 1
    /\ Seqs(operations) = <<2, 3>>

\* C4: for every capacity N >= 1 and every interleaving of the queue's callers,
\* the queue never holds more than N operations, and while a reader holds the
\* lock no enqueue stands between its eviction and its push.
C4_BoundedAndNeverTorn ==
    max_operations >= 1 =>
        /\ Len(operations) <= max_operations
        /\ \A r \in Callers : qcall[r].pc = "rd_locked" =>
              \A w \in Callers : ~(qcall[w].pc = "enq_push" /\ qcall[w].evicted)

C4_Witness ==
    \E r, w \in Callers :
        /\ max_operations >= 1
        /\ qcall[r].pc = "rd_wait"
        /\ qcall[w].pc = "enq_push"
        /\ qcall[w].evicted
        /\ Len(operations) = max_operations - 1

\* The entries of v whose 0-based position is not in drop, in v's order.
RECURSIVE KeepFrom(_, _, _)
KeepFrom(v, drop, i) ==
    IF i > Len(v) THEN <<>>
    ELSE (IF (i - 1) \in drop THEN <<>> ELSE <<v[i]>>) \o KeepFrom(v, drop, i + 1)

PairwiseDistinct(s) == \A i, j \in DOMAIN s : i # j => s[i] # s[j]

Range(s) == {s[i] : i \in DOMAIN s}

\* C5: for every queue content and every list of pairwise distinct indices, in any
\* order, remove_operations removes exactly the entries at the listed in-range
\* positions of the queue as it was before the call, ignores the out-of-range
\* indices and keeps the other entries in their order.
C5_RemovesListedPositions ==
    \A p \in Callers :
        (qcall[p].pc = "rm_done" /\ PairwiseDistinct(qcall[p].indices))
        => operations = KeepFrom(qcall[p].before, Range(qcall[p].indices), 1)

C5_Witness ==
    \E p \in Callers :
        /\ qcall[p].pc = "rm_done"
        /\ qcall[p].indices = <<0, 1>>
        /\ Len(qcall[p].before) = 2
        /\ operations = <<>>

\* -------------------------------------------------------- SyncManager

\* The Task values callers hand to create_task: fresh from Task::new.
CreateInputs ==
    { NewTask("a", u, 0) : u \in Uuids }

\* The Task values callers hand to update_task.
UpdateInputs ==
    { [NewTask("b", "u1", 0) EXCEPT !.id = i] :
        i \in {None} \cup {Some(n) : n \in RowIds} }

\* OfflineQueue::enqueue as one step (it runs under the write guard): the Vec it
\* leaves, or a panic when the queue is empty and at capacity.
enqueue(ops, cap, operation) ==
    IF AtCapacity(ops, cap)
    THEN IF Len(ops) = 0
         THEN [panic |-> TRUE, ops |-> ops]
         ELSE [panic |-> FALSE, ops |-> VecPush(VecRemove(ops, 0), operation)]
    ELSE [panic |-> FALSE, ops |-> VecPush(ops, operation)]

\* The cache key sync() takes from an operation: task.id.unwrap_or(0) or task_id.
OpTaskId(op) ==
    IF op.kind = "DeleteTask" THEN op.task_id ELSE UnwrapOr(op.task.id, 0)

AllIndicesButLast(n) == [i \in 1..(n - 1) |-> i - 1]

\* (0..operations.len()).collect()
AllIndices(n) == [i \in 1..n |-> i - 1]

SeqSet(ops) == {ops[i].seq : i \in DOMAIN ops}

\* SyncManager::has_pending_operations
has_pending_operations(ops) == ~(Len(ops) = 0)

\* SyncManager::pending_operation_count
pending_operation_count(ops) == Len(ops)

\* Calls that may enqueue, made so far.
MutationsStarted ==
    next_seq + Cardinality({q \in Callers :
        /\ mcall[q].pc \in {"cache", "enqueue"}})

MayMutate == MutationsStarted < MaxMut

\* create_task: self.storage.create_task(task).await?
\* io is whether the database answers at all.
MCreateStore(p, task, io) ==
    /\ mcall[p].pc = "idle"
    /\ MayMutate
    /\ next_rowid \in RowIds
    /\ LET r == IF io = "ok" THEN storage_create_task(store, next_rowid, task, now)
                ELSE <<Err("Storage"), store, next_rowid>>
       IN  /\ store' = r[2]
           /\ next_rowid' = r[3]
           /\ mcall' = [mcall EXCEPT ![p] =
                IF r[1].ok
                THEN [pc |-> "cache", fn |-> "create_task", task |-> r[1].val]
                ELSE [pc |-> "done", fn |-> "create_task", ret |-> r[1]]]
    /\ UNCHANGED <<qvars, kvars, gvars, cvars, rvars, evars, cache, last_sync, now, mhist>>

\* update_task: self.storage.update_task(task).await?
MUpdateStore(p, task, io) ==
    /\ mcall[p].pc = "idle"
    /\ MayMutate
    /\ LET r == IF io = "ok" THEN storage_update_task(store, task, now)
                ELSE <<Err("Storage"), store>>
       IN  /\ store' = r[2]
           /\ mcall' = [mcall EXCEPT ![p] =
                IF r[1].ok
                THEN [pc |-> "cache", fn |-> "update_task", task |-> r[1].val]
                ELSE [pc |-> "done", fn |-> "update_task", ret |-> r[1]]]
    /\ UNCHANGED <<qvars, kvars, gvars, cvars, rvars, evars, next_rowid, cache, last_sync, now, mhist>>

\* create_task / update_task: self.cache.cache_task(task.clone(), 1).await
MCache(p) ==
    /\ mcall[p].pc = "cache"
    /\ cache' = cache_task(cache, mcall[p].task, 1, now)
    /\ mcall' = [mcall EXCEPT ![p].pc = "enqueue"]
    /\ UNCHANGED <<qvars, kvars, gvars, cvars, rvars, evars, store, next_rowid, last_sync, now, mhist>>

\* The SyncOperation a mutating call builds, stamped with its place in the
\* history of pushes.
BuildOperation(c, seq) ==
    CASE c.fn = "create_task" -> [kind |-> "CreateTask", task |-> c.task, seq |-> seq]
      [] c.fn = "update_task" -> [kind |-> "UpdateTask", task |-> c.task, seq |-> seq]
      [] c.fn = "delete_task" -> [kind |-> "DeleteTask", task_id |-> c.task_id, seq |-> seq]

\* create_task / update_task / delete_task: self.queue.enqueue(operation).await?
\* and the call returns Ok.
MEnqueue(p) ==
    /\ mcall[p].pc = "enqueue"
    /\ LET r == enqueue(operations, max_operations, BuildOperation(mcall[p], next_seq + 1))
       IN  IF r.panic
           THEN /\ mcall' = [mcall EXCEPT ![p] = [pc |-> "panicked", fn |-> mcall[p].fn]]
                /\ UNCHANGED <<operations, next_seq>>
           ELSE /\ operations' = r.ops
                /\ next_seq' = next_seq + 1
                /\ mcall' = [mcall EXCEPT ![p] =
                     IF mcall[p].fn = "delete_task"
                     THEN [pc |-> "done", fn |-> "delete_task", task_id |-> mcall[p].task_id,
                           ret |-> Ok(TRUE)]
                     ELSE [pc |-> "done", fn |-> mcall[p].fn, ret |-> Ok(mcall[p].task)]]
    /\ UNCHANGED <<max_operations, qlock, qcall, removed_any, mvars_but_mcall>>
\* delete_task as it would be if it queued the deletion whatever the store
\* reported
DeleteEnqueuesAlways(p, task_id, io) ==
    /\ mcall[p].pc = "idle"
    /\ MayMutate
    /\ store' = storage_delete_task(store, task_id)[2]
    /\ mcall' = [mcall EXCEPT ![p] =
          [pc |-> "enqueue", fn |-> "delete_task", task_id |-> task_id]]
    /\ UNCHANGED <<qvars, kvars, gvars, cvars, rvars, evars, next_rowid, cache, last_sync, now, mhist>>

\* delete_task: self.storage.delete_task(task_id).await?  When no row was
\* deleted the call returns Ok(false) at once.
MDeleteStore(p, task_id, io) ==
    /\ mcall[p].pc = "idle"
    /\ MayMutate
    /\ LET r == storage_delete_task(store, task_id)
       IN  IF io = "ok"
           THEN /\ store' = r[2]
                /\ mcall' = [mcall EXCEPT ![p] =
                     IF r[1]
                     THEN [pc |-> "enqueue", fn |-> "delete_task", task_id |-> task_id]
                     ELSE [pc |-> "done", fn |-> "delete_task", task_id |-> task_id,
                           ret |-> Ok(FALSE)]]
           ELSE /\ mcall' = [mcall EXCEPT ![p] =
                     [pc |-> "done", fn |-> "delete_task", task_id |-> task_id,
                      ret |-> Err("Storage")]]
                /\ UNCHANGED store
    /\ UNCHANGED <<qvars, kvars, gvars, cvars, rvars, evars, next_rowid, cache, last_sync, now, mhist>>

\* get_tasks: self.cache.get_all_cached_tasks().await; a cache that holds a task
\* answers the call.
MGetCached(p) ==
    /\ mcall[p].pc = "idle"
    /\ LET cached_tasks == get_all_cached_tasks(cache)
       IN  mcall' = [mcall EXCEPT ![p] =
              IF cached_tasks # {}
              THEN [pc |-> "done", fn |-> "get_tasks",
                    ret |-> Ok({ct.task : ct \in cached_tasks})]
              ELSE [pc |-> "list", fn |-> "get_tasks"]]
    /\ UNCHANGED <<qvars, mvars_but_mcall>>

\* get_tasks: self.storage.list_tasks(None).await?  With no task listed the loop
\* has nothing to cache and the call returns.
MListStore(p, order, io) ==
    /\ mcall[p].pc = "list"
    /\ LET tasks == storage_list_tasks(store, order)
       IN  mcall' = [mcall EXCEPT ![p] =
              IF io # "ok" THEN [pc |-> "done", fn |-> "get_tasks", ret |-> Err("Storage")]
              ELSE IF tasks = <<>> THEN [pc |-> "done", fn |-> "get_tasks", ret |-> Ok({})]
              ELSE [pc |-> "fill", fn |-> "get_tasks", tasks |-> tasks, i |-> 1]]
    /\ UNCHANGED <<qvars, mvars_but_mcall>>

\* get_tasks: one turn of the loop, self.cache.cache_task(task.clone(), 1).await;
\* after the last one the call returns the listed tasks.
MGetFill(p) ==
    /\ mcall[p].pc = "fill"
    /\ cache' = cache_task(cache, mcall[p].tasks[mcall[p].i], 1, now)
    /\ mcall' = [mcall EXCEPT ![p] =
          IF mcall[p].i = Len(mcall[p].tasks)
          THEN [pc |-> "done", fn |-> "get_tasks",
                ret |-> Ok({mcall[p].tasks[k] : k \in DOMAIN mcall[p].tasks})]
          ELSE [mcall[p] EXCEPT !.i = @ + 1]]
    /\ UNCHANGED <<qvars, kvars, gvars, cvars, rvars, evars, store, next_rowid, last_sync, now, mhist>>

\* sync: self.queue.get_pending_operations().await; with nothing pending the
\* call returns Ok.  SyncManager holds no SyncProvider and sync() calls none:
\* provider_calls, the operations handed to one with success, stays empty.
MSyncSnapshot(p) ==
    /\ mcall[p].pc = "idle"
    /\ mcall' = [mcall EXCEPT ![p] =
          IF operations = <<>>
          THEN [pc |-> "done", fn |-> "sync", ret |-> Ok(TRUE), snapshot |-> <<>>,
                removed |-> {}, provider_calls |-> {}]
          ELSE [pc |-> "sync_last", fn |-> "sync", snapshot |-> operations]]
    /\ UNCHANGED <<qvars, mvars_but_mcall>>

\* sync: self.cache.set_last_sync(Utc::now()).await
MSyncSetLast(p) ==
    /\ mcall[p].pc = "sync_last"
    /\ last_sync' = Some(now)
    /\ mcall' = [mcall EXCEPT ![p] =
          [pc |-> "sync_mark", fn |-> "sync", snapshot |-> mcall[p].snapshot, i |-> 1]]
    /\ UNCHANGED <<qvars, kvars, gvars, cvars, rvars, evars, store, next_rowid, cache, now, mhist>>

\* sync: one turn of the loop over the snapshot,
\* self.cache.update_task_sync_status(id, SyncStatus::Completed).await
MSyncMark(p) ==
    /\ mcall[p].pc = "sync_mark"
    /\ cache' = update_task_sync_status(cache, OpTaskId(mcall[p].snapshot[mcall[p].i]),
                                        "Completed", now)
    /\ mcall' = [mcall EXCEPT ![p] =
          IF mcall[p].i = Len(mcall[p].snapshot)
          THEN [pc |-> "sync_remove", fn |-> "sync", snapshot |-> mcall[p].snapshot]
          ELSE [mcall[p] EXCEPT !.i = @ + 1]]
    /\ UNCHANGED <<qvars, kvars, gvars, cvars, rvars, evars, store, next_rowid, last_sync, now, mhist>>

\* sync: self.queue.remove_operations(&indices).await with every index of the
\* snapshot, and the call returns Ok.  removed is what the call took out.
MSyncRemove(p) ==
    /\ mcall[p].pc = "sync_remove"
    /\ operations' = remove_operations(operations, AllIndices(Len(mcall[p].snapshot)))
    /\ removed_any' = TRUE
    /\ mcall' = [mcall EXCEPT ![p] =
          [pc |-> "done", fn |-> "sync", ret |-> Ok(TRUE), snapshot |-> mcall[p].snapshot,
           removed |-> SeqSet(operations) \ SeqSet(operations'), provider_calls |-> {}]]
    /\ UNCHANGED <<max_operations, qlock, qcall, next_seq, mvars_but_mcall>>

\* The caller takes the result of its call and is free to call again.
MReturn(p) ==
    /\ mcall[p].pc = "done"
    /\ mhist' =
          [clean |-> mhist.clean /\ mcall[p].fn \in {"create_task", "update_task"}
                        /\ mcall[p].ret.ok,
           deleted |-> IF mcall[p].fn = "delete_task" /\ mcall[p].ret = Ok(TRUE)
                       THEN mhist.deleted \cup {mcall[p].task_id}
                       ELSE mhist.deleted]
    /\ mcall' = [mcall EXCEPT ![p] = Idle]
    /\ UNCHANGED <<qvars, kvars, gvars, cvars, rvars, evars, store, next_rowid, cache, last_sync, now>>

IoOutcomes == {"ok", "err"}

\* One step of caller p of the SyncManager.
MStep(p) ==
    \/ \E task \in CreateInputs, io \in IoOutcomes : MCreateStore(p, task, io)
    \/ \E task \in UpdateInputs, io \in IoOutcomes : MUpdateStore(p, task, io)
    \/ \E task_id \in RowIds, io \in IoOutcomes : MDeleteStore(p, task_id, io)
    \/ MCache(p)
    \/ MEnqueue(p)
    \/ MGetCached(p)
    \/ \E order \in ListOrders(store), io \in IoOutcomes : MListStore(p, order, io)
    \/ MGetFill(p)
    \/ MSyncSnapshot(p)
    \/ MSyncSetLast(p)
    \/ MSyncMark(p)
    \/ MSyncRemove(p)
    \/ MReturn(p)

\* The tasks tables a SyncManager is constructed over: an empty one, and two that
\* hold tasks stored in an earlier run.
InitialTables ==
    { <<>>,
      <<TaskToRow(NewTask("a", "u1", 0))>>,
      <<TaskToRow(NewTask("a", "u1", 0)), TaskToRow(NewTask("b", "u2", 1))>> }

\* SyncManager::new(storage, max_queue_size, strategy), over one of `tables`
InitManager(tables) ==
    /\ max_operations \in 0..MaxCap
    /\ operations = <<>>
    /\ qlock = Unlocked
    /\ qcall = [p \in Callers |-> Idle]
    /\ next_seq = 0
    /\ removed_any = FALSE
    /\ store \in tables
    /\ next_rowid = Len(store) + 1
    /\ cache = <<>>
    /\ last_sync = None
    /\ now = 1
    /\ mcall = [p \in Callers |-> Idle]
    /\ mhist = [clean |-> TRUE, deleted |-> {}]
    /\ ecall = NoCall
    /\ ecalls = 0
    /\ default_strategy = "LocalWins"
    /\ rcall = NoCall
    /\ documents = <<>>
    /\ ccall = NoCall
    /\ issue_mapping = <<>>
    /\ issues = <<>>
    /\ gcall = NoCall
    /\ klock = [l \in CacheLocks |-> Unlocked]
    /\ kcall = [p \in Callers |-> Idle]

\* A manager constructed over a fresh database.
InitSync == InitManager({<<>>})

\* A manager constructed over a fresh database or over one an earlier run filled.
InitSolo == InitManager(InitialTables)

NextSync == \E p \in Callers : MStep(p)

\* A SyncManager shared by concurrent callers.
SpecSync == InitSync /\ [][NextSync]_vars

NextSolo == MStep(1)

\* A SyncManager with one caller, whose calls run one after the other.
SpecSolo == InitSolo /\ [][NextSolo]_vars

\* ------------------------------------------- claims on the SyncManager

\* Caller p is in a sync() call that has taken its snapshot.
HoldsSnapshot(p) ==
    \/ mcall[p].pc \in {"sync_last", "sync_mark", "sync_remove"}
    \/ mcall[p].pc = "done" /\ mcall[p].fn = "sync"

\* A sync() call of p has returned and p holds its result.
SyncReturned(p) == mcall[p].pc = "done" /\ mcall[p].fn = "sync"

\* C2: under any interleaving of sync() with the mutating calls or with another
\* sync(), every operation a sync() call removes from the queue was in that
\* call's snapshot (and so had its status update applied by that call); an
\* operation enqueued after the snapshot is never removed by that sync().
C2_SyncRemovesOnlyItsSnapshot ==
    \A p \in Callers :
        SyncReturned(p) => mcall[p].removed \subseteq SeqSet(mcall[p].snapshot)

\* The operations of ops stand in the order their pushes took effect.
InPushOrder(ops) == \A i, j \in DOMAIN ops : i < j => ops[i].seq < ops[j].seq

\* C3: the queue's contents are always a subsequence of the enqueued operations
\* in the order their enqueue calls took effect, and so is the snapshot every
\* sync() iterates over; in particular no snapshot lists the UpdateTask of a task
\* before a CreateTask of that task that was enqueued earlier.
C3_EnqueueOrderKept ==
    /\ InPushOrder(operations)
    /\ \A p \in Callers : HoldsSnapshot(p) =>
          /\ InPushOrder(mcall[p].snapshot)
          /\ \A j, k \in DOMAIN mcall[p].snapshot :
                (/\ j < k
                 /\ mcall[p].snapshot[j].kind = "UpdateTask"
                 /\ mcall[p].snapshot[k].kind = "CreateTask"
                 /\ OpTaskId(mcall[p].snapshot[j]) = OpTaskId(mcall[p].snapshot[k]))
                => mcall[p].snapshot[j].seq < mcall[p].snapshot[k].seq

C3_Witness ==
    \E p \in Callers :
        /\ mcall[p].pc = "sync_mark"
        /\ mcall[p].i = 2
        /\ Len(mcall[p].snapshot) = 2
        /\ mcall[p].snapshot[1].kind = "CreateTask"
        /\ mcall[p].snapshot[2].kind = "UpdateTask"
        /\ OpTaskId(mcall[p].snapshot[1]) = OpTaskId(mcall[p].snapshot[2])

\* C6: after at most `capacity` successful create_task/update_task calls and then
\* one sync(), with a single caller: sync() returns Ok, has_pending_operations()
\* is false, pending_operation_count() is 0 and the cached entry of every task
\* that had an operation in the queue has sync status Completed.
C6_SyncDrainsTheQueue ==
    (/\ SyncReturned(1)
     /\ mhist.clean
     /\ next_seq <= max_operations)
    => /\ mcall[1].ret.ok
       /\ ~has_pending_operations(operations)
       /\ pending_operation_count(operations) = 0
       /\ \A k \in DOMAIN mcall[1].snapshot :
             /\ OpTaskId(mcall[1].snapshot[k]) \in DOMAIN cache
             /\ cache[OpTaskId(mcall[1].snapshot[k])].sync_status = "Completed"

C6_Witness ==
    /\ SyncReturned(1)
    /\ mhist.clean
    /\ next_seq = 2
    /\ max_operations = 2
    /\ Len(mcall[1].snapshot) = 2
    /\ mcall[1].snapshot[1].kind = "CreateTask"
    /\ mcall[1].snapshot[2].kind = "UpdateTask"
    /\ OpTaskId(mcall[1].snapshot[1]) # OpTaskId(mcall[1].snapshot[2])

\* C7: sync() pushes each pending operation through the Sync Provider, and an
\* operation is removed from the queue only if the provider call for it
\* succeeded.
C7_RemovedOnlyAfterProviderSuccess ==
    \A p \in Callers :
        SyncReturned(p) => mcall[p].removed \subseteq mcall[p].provider_calls

\* C8: after a successful create_task or update_task with a single caller, the
\* Task Store holds the returned task, the cache entry of its id holds that task
\* with sync status Pending, and the last entry of the queue is the CreateTask
\* (respectively UpdateTask) operation carrying that task.
C8_MutationReachesStoreCacheQueue ==
    (/\ mcall[1].pc = "done"
     /\ mcall[1].fn \in {"create_task", "update_task"}
     /\ mcall[1].ret.ok)
    => LET task == mcall[1].ret.val
           id == UnwrapOr(task.id, 0)
       IN  /\ storage_get_task_by_id(store, id) = Some(task)
           /\ get_cached_task(cache, id) # None
           /\ cache[id].task = task
           /\ cache[id].sync_status = "Pending"
           /\ operations # <<>>
           /\ operations[Len(operations)].kind =
                 (IF mcall[1].fn = "create_task" THEN "CreateTask" ELSE "UpdateTask")
           /\ operations[Len(operations)].task = task

\* C9: once delete_task(id) has returned true, no later get_tasks() call returns
\* a task with that id.
C9_DeletedTaskNotListed ==
    (/\ mcall[1].pc = "done"
     /\ mcall[1].fn = "get_tasks"
     /\ mcall[1].ret.ok)
    => \A task \in mcall[1].ret.val : UnwrapOr(task.id, 0) \notin mhist.deleted

\* --------------------------------------------------------------- Task

\* TaskError::InvalidStatusTransition { from, to }
ErrTransition(from, to) ==
    [ok |-> FALSE, err |-> "InvalidStatusTransition", from |-> from, to |-> to]

\* TaskError::Validation { message }, the message as its pieces
ErrValidation(message) == [ok |-> FALSE, err |-> "Validation", message |-> message]

\* TaskError::NotFound { id }
ErrNotFound(id) == [ok |-> FALSE, err |-> "NotFound", id |-> ToString(id)]

StartUnchecked(task, t) ==
    <<Ok(TRUE), [task EXCEPT !.start_date = Some(t), !.modified_date = t]>>

\* Task::start at time t: <<result, task>>
task_start(task, t) ==
    IF task.status # "Pending" /\ task.status # "Waiting"
    THEN <<ErrTransition(StatusToString(task.status), "started"), task>>
    ELSE <<Ok(TRUE), [task EXCEPT !.start_date = Some(t), !.modified_date = t]>>

CompleteUnchecked(task, t) ==
    <<Ok(TRUE), [task EXCEPT !.status = "Completed", !.end_date = Some(t),
                             !.modified_date = t]>>

\* Task::complete at time t: <<result, task>>
task_complete(task, t) ==
    IF task.status = "Completed"
    THEN <<ErrTransition(StatusToString(task.status), "completed"), task>>
    ELSE <<Ok(TRUE), [task EXCEPT !.status = "Completed", !.end_date = Some(t),
                                  !.modified_date = t]>>

\* Task::delete at time t: <<result, task>>
task_delete(task, t) ==
    IF task.status = "Deleted"
    THEN <<ErrTransition(StatusToString(task.status), "deleted"), task>>
    ELSE <<Ok(TRUE), [task EXCEPT !.status = "Deleted", !.modified_date = t]>>

\* Task::add_tag at time t
task_add_tag(task, tag, t) ==
    [task EXCEPT !.tags = task.tags \cup {tag}, !.modified_date = t]

\* Task::remove_tag at time t
task_remove_tag(task, tag, t) ==
    IF tag \in task.tags
    THEN [task EXCEPT !.tags = task.tags \ {tag}, !.modified_date = t]
    ELSE task

\* Task::add_annotation at time t
task_add_annotation(task, description, t) ==
    [task EXCEPT !.annotations = Append(task.annotations,
                                        [entry |-> t, description |-> description]),
                 !.modified_date = t]

\* --------------------------------------------------------- TaskEngine

Statuses == {"Pending", "Completed", "Deleted", "Waiting"}

Tags == {"", "x"}

\* The ids the callers pass: none that is positive, one stored early, one late.
EngineIds == {0} \cup RowIds

AllowsEveryTransition(from, to) == TRUE

\* TaskEngine::is_valid_status_transition
is_valid_status_transition(from, to) ==
    CASE to = "Deleted" -> TRUE
      [] from = "Deleted" -> FALSE
      [] from = "Pending" -> TRUE
      [] from = "Completed" /\ to \in {"Pending", "Waiting"} -> TRUE
      [] from = "Waiting" /\ to \in {"Pending", "Completed"} -> TRUE
      [] OTHER -> FALSE

CreateUnvalidated(st, rowid, description, uuid, t, io) ==
    IF io = "err" THEN <<Err("Storage"), st, rowid>>
    ELSE storage_create_task(st, rowid, NewTask(description, uuid, t), t)

\* TaskEngine::create_task at time t: <<result, table, counter>>
engine_create_task(st, rowid, description, uuid, t, io) ==
    IF IsBlank(description)
    THEN <<ErrValidation(<<"Task description cannot be empty">>), st, rowid>>
    ELSE IF io = "err" THEN <<Err("Storage"), st, rowid>>
    ELSE storage_create_task(st, rowid, NewTask(description, uuid, t), t)

GetUnvalidated(st, id, io) ==
    IF io = "err" THEN Err("Storage") ELSE Ok(storage_get_task_by_id(st, id))

\* TaskEngine::get_task
engine_get_task(st, id, io) ==
    IF id <= 0 THEN ErrValidation(<<"Task ID must be positive">>)
    ELSE IF io = "err" THEN Err("Storage")
    ELSE Ok(storage_get_task_by_id(st, id))

\* TaskEngine::update_task at time t: <<result, table>>
engine_update_task(st, task, t, io) ==
    IF IsBlank(task.description)
    THEN <<ErrValidation(<<"Task description cannot be empty">>), st>>
    ELSE IF io = "err" THEN <<Err("Storage"), st>>
    ELSE LET existing_task == storage_get_task_by_id(st, UnwrapOr(task.id, 0))
         IN  IF /\ existing_task # None
                /\ ~is_valid_status_transition(existing_task[1].status, task.status)
             THEN <<ErrValidation(<<"Invalid status transition from",
                                    StatusToString(existing_task[1].status), "to",
                                    StatusToString(task.status)>>), st>>
             ELSE storage_update_task(st, [task EXCEPT !.modified_date = t], t)

\* self.get_task(id).await?.ok_or_else(NotFound)?: Ok(task) or the error the
\* operation returns.
LoadTask(st, id, io) ==
    LET got == engine_get_task(st, id, io)
    IN  IF ~got.ok THEN got
        ELSE IF got.val = None THEN ErrNotFound(id)
        ELSE Ok(got.val[1])

\* task.method()?; self.storage.update_task(task).await, for the <<result, task>>
\* the Task method gave: <<result, table>>.
StoreApplied(st, applied, t) ==
    IF ~applied[1].ok THEN <<applied[1], st>>
    ELSE storage_update_task(st, applied[2], t)

\* TaskEngine::complete_task
engine_complete_task(st, id, t, io) ==
    LET got == LoadTask(st, id, io)
    IN  IF ~got.ok THEN <<got, st>>
        ELSE StoreApplied(st, task_complete(got.val, t), t)
\* delete_task as it would be if it removed the row
DeleteRemovesRow(st, id, t, io) ==
    LET got == LoadTask(st, id, io)
    IN  IF ~got.ok THEN <<got, st>>
        ELSE <<Ok([got.val EXCEPT !.status = "Deleted", !.modified_date = t]),
               storage_delete_task(st, id)[2]>>

\* TaskEngine::delete_task
engine_delete_task(st, id, t, io) ==
    LET got == LoadTask(st, id, io)
    IN  IF ~got.ok THEN <<got, st>>
        ELSE StoreApplied(st, task_delete(got.val, t), t)

\* TaskEngine::start_task
engine_start_task(st, id, t, io) ==
    LET got == LoadTask(st, id, io)
    IN  IF ~got.ok THEN <<got, st>>
        ELSE StoreApplied(st, task_start(got.val, t), t)

\* TaskEngine::stop_task
engine_stop_task(st, id, t, io) ==
    LET got == LoadTask(st, id, io)
    IN  IF ~got.ok THEN <<got, st>>
        ELSE storage_update_task(st, [got.val EXCEPT !.start_date = None,
                                                     !.modified_date = t], t)

\* TaskEngine::annotate_task
engine_annotate_task(st, id, description, t, io) ==
    IF IsBlank(description)
    THEN <<ErrValidation(<<"Annotation description cannot be empty">>), st>>
    ELSE LET got == LoadTask(st, id, io)
         IN  IF ~got.ok THEN <<got, st>>
             ELSE storage_update_task(st, task_add_annotation(got.val, description, t), t)

\* TaskEngine::add_tag
engine_add_tag(st, id, tag, t, io) ==
    IF IsBlank(tag)
    THEN <<ErrValidation(<<"Tag cannot be empty">>), st>>
    ELSE LET got == LoadTask(st, id, io)
         IN  IF ~got.ok THEN <<got, st>>
             ELSE storage_update_task(st, task_add_tag(got.val, tag, t), t)

\* TaskEngine::remove_tag
engine_remove_tag(st, id, tag, t, io) ==
    LET got == LoadTask(st, id, io)
    IN  IF ~got.ok THEN <<got, st>>
        ELSE storage_update_task(st, task_remove_tag(got.val, tag, t), t)

\* The Task values callers hand to update_task.
EngineUpdateInputs ==
    { [NewTask("b", u, 0) EXCEPT !.id = i, !.status = s] :
        u \in Uuids, s \in Statuses, i \in {None} \cup {Some(n) : n \in RowIds} }
    \cup { [NewTask(" ", "u1", 0) EXCEPT !.id = Some(1)] }

MayCall == ecalls < MaxCalls

\* The record of a call: its name, the id it named, its other argument (None when
\* it has none), whether the database answered, the time of the call, the table
\* and the stored task of that id before the call, and what the call returned.
CallRecord(fn, id, arg, io, ret) ==
    [fn |-> fn, id |-> id, arg |-> arg, io |-> io, at |-> now, table |-> store,
     before |-> storage_get_task_by_id(store, id), ret |-> ret]

\* A call of create_task(description); Uuid::new_v4() draws a uuid no task has.
ECreate(description, uuid, io) ==
    /\ MayCall
    /\ next_rowid \in RowIds
    /\ \A i \in DOMAIN store : store[i].uuid # uuid
    /\ LET r == engine_create_task(store, next_rowid, description, uuid, now, io)
       IN  /\ store' = r[2]
           /\ next_rowid' = r[3]
           /\ ecall' = CallRecord("create_task", 0, description, io, r[1])
    /\ ecalls' = ecalls + 1
    /\ UNCHANGED <<qvars, kvars, gvars, cvars, rvars, cache, last_sync, now, mcall, mhist>>

\* A call of get_task(id)
EGet(id, io) ==
    /\ MayCall
    /\ ecall' = CallRecord("get_task", id, None, io, engine_get_task(store, id, io))
    /\ ecalls' = ecalls + 1
    /\ UNCHANGED <<qvars, kvars, gvars, cvars, rvars, store, next_rowid, cache, last_sync, now, mcall, mhist>>

\* A call of update_task(task)
EUpdate(task, io) ==
    /\ MayCall
    /\ LET r == engine_update_task(store, task, now, io)
       IN  /\ store' = r[2]
           /\ ecall' = CallRecord("update_task", UnwrapOr(task.id, 0), task, io, r[1])
    /\ ecalls' = ecalls + 1
    /\ UNCHANGED <<qvars, kvars, gvars, cvars, rvars, next_rowid, cache, last_sync, now, mcall, mhist>>

\* A call of complete_task(id)
EComplete(id, io) ==
    /\ MayCall
    /\ LET r == engine_complete_task(store, id, now, io)
       IN  /\ store' = r[2]
           /\ ecall' = CallRecord("complete_task", id, None, io, r[1])
    /\ ecalls' = ecalls + 1
    /\ UNCHANGED <<qvars, kvars, gvars, cvars, rvars, next_rowid, cache, last_sync, now, mcall, mhist>>

\* A call of delete_task(id)
EDelete(id, io) ==
    /\ MayCall
    /\ LET r == engine_delete_task(store, id, now, io)
       IN  /\ store' = r[2]
           /\ ecall' = CallRecord("delete_task", id, None, io, r[1])
    /\ ecalls' = ecalls + 1
    /\ UNCHANGED <<qvars, kvars, gvars, cvars, rvars, next_rowid, cache, last_sync, now, mcall, mhist>>

\* A call of start_task(id)
EStart(id, io) ==
    /\ MayCall
    /\ LET r == engine_start_task(store, id, now, io)
       IN  /\ store' = r[2]
           /\ ecall' = CallRecord("start_task", id, None, io, r[1])
    /\ ecalls' = ecalls + 1
    /\ UNCHANGED <<qvars, kvars, gvars, cvars, rvars, next_rowid, cache, last_sync, now, mcall, mhist>>

\* A call of stop_task(id)
EStop(id, io) ==
    /\ MayCall
    /\ LET r == engine_stop_task(store, id, now, io)
       IN  /\ store' = r[2]
           /\ ecall' = CallRecord("stop_task", id, None, io, r[1])
    /\ ecalls' = ecalls + 1
    /\ UNCHANGED <<qvars, kvars, gvars, cvars, rvars, next_rowid, cache, last_sync, now, mcall, mhist>>

\* A call of annotate_task(id, description)
EAnnotate(id, description, io) ==
    /\ MayCall
    /\ LET r == engine_annotate_task(store, id, description, now, io)
       IN  /\ store' = r[2]
           /\ ecall' = CallRecord("annotate_task", id, description, io, r[1])
    /\ ecalls' = ecalls + 1
    /\ UNCHANGED <<qvars, kvars, gvars, cvars, rvars, next_rowid, cache, last_sync, now, mcall, mhist>>

\* A call of add_tag(id, tag)
EAddTag(id, tag, io) ==
    /\ MayCall
    /\ LET r == engine_add_tag(store, id, tag, now, io)
       IN  /\ store' = r[2]
           /\ ecall' = CallRecord("add_tag", id, tag, io, r[1])
    /\ ecalls' = ecalls + 1
    /\ UNCHANGED <<qvars, kvars, gvars, cvars, rvars, next_rowid, cache, last_sync, now, mcall, mhist>>

\* A call of remove_tag(id, tag)
ERemoveTag(id, tag, io) ==
    /\ MayCall
    /\ LET r == engine_remove_tag(store, id, tag, now, io)
       IN  /\ store' = r[2]
           /\ ecall' = CallRecord("remove_tag", id, tag, io, r[1])
    /\ ecalls' = ecalls + 1
    /\ UNCHANGED <<qvars, kvars, gvars, cvars, rvars, next_rowid, cache, last_sync, now, mcall, mhist>>

\* A caller that holds the Task value of row id calls start, complete or delete
\* on the value; the store is not written.
ETaskMethod(id, method) ==
    /\ MayCall
    /\ id \in DOMAIN store
    /\ LET task == row_to_task(id, store[id])
           r == CASE method = "start" -> task_start(task, now)
                  [] method = "complete" -> task_complete(task, now)
                  [] method = "delete" -> task_delete(task, now)
       IN  ecall' = [fn |-> method, id |-> id, at |-> now, before |-> Some(task),
                     ret |-> r[1], after |-> r[2]]
    /\ ecalls' = ecalls + 1
    /\ UNCHANGED <<qvars, kvars, gvars, cvars, rvars, store, next_rowid, cache, last_sync, now, mcall, mhist>>

\* Time passes.
Tick ==
    /\ now + 1 \in Times
    /\ now' = now + 1
    /\ UNCHANGED <<qvars, kvars, gvars, cvars, rvars, store, next_rowid, cache, last_sync, mcall, mhist, evars>>

\* TaskEngine::new over a fresh database
InitEngine ==
    /\ max_operations = 0
    /\ operations = <<>>
    /\ qlock = Unlocked
    /\ qcall = [p \in Callers |-> Idle]
    /\ next_seq = 0
    /\ removed_any = FALSE
    /\ store = <<>>
    /\ next_rowid = 1
    /\ cache = <<>>
    /\ last_sync = None
    /\ now = 0
    /\ mcall = [p \in Callers |-> Idle]
    /\ mhist = [clean |-> TRUE, deleted |-> {}]
    /\ ecall = NoCall
    /\ ecalls = 0
    /\ default_strategy = "LocalWins"
    /\ rcall = NoCall
    /\ documents = <<>>
    /\ ccall = NoCall
    /\ issue_mapping = <<>>
    /\ issues = <<>>
    /\ gcall = NoCall
    /\ klock = [l \in CacheLocks |-> Unlocked]
    /\ kcall = [p \in Callers |-> Idle]

NextEngine ==
    \/ \E description \in Descriptions, uuid \in Uuids, io \in IoOutcomes :
          ECreate(description, uuid, io)
    \/ \E id \in EngineIds, io \in IoOutcomes : EGet(id, io)
    \/ \E task \in EngineUpdateInputs, io \in IoOutcomes : EUpdate(task, io)
    \/ \E id \in EngineIds, io \in IoOutcomes : EComplete(id, io)
    \/ \E id \in EngineIds, io \in IoOutcomes : EDelete(id, io)
    \/ \E id \in EngineIds, io \in IoOutcomes : EStart(id, io)
    \/ \E id \in EngineIds, io \in IoOutcomes : EStop(id, io)
    \/ \E id \in EngineIds, description \in Descriptions, io \in IoOutcomes :
          EAnnotate(id, description, io)
    \/ \E id \in EngineIds, tag \in Tags, io \in IoOutcomes : EAddTag(id, tag, io)
    \/ \E id \in EngineIds, tag \in Tags, io \in IoOutcomes : ERemoveTag(id, tag, io)
    \/ \E id \in RowIds, method \in {"start", "complete", "delete"} :
          ETaskMethod(id, method)
    \/ Tick

\* A TaskEngine with one caller, whose calls run one after the other.
SpecEngine == InitEngine /\ [][NextEngine]_vars

\* ------------------------------------------- claims on the TaskEngine

EngineFns ==
    {"update_task", "complete_task", "delete_task", "start_task", "stop_task",
     "annotate_task", "add_tag", "remove_tag"}

\* C10: Deleted is terminal.  When the stored task a TaskEngine operation names
\* has status Deleted, the task is stored with status Deleted after the operation
\* and a successful operation returns it with status Deleted; and start, complete
\* and delete called on a Task value of status Deleted leave its status Deleted.
C10_DeletedIsTerminal ==
    /\ (/\ ecall.fn \in EngineFns
        /\ ecall.before # None
        /\ ecall.before[1].status = "Deleted")
       => /\ ecall.id \in DOMAIN store
          /\ store[ecall.id].status = "deleted"
          /\ ecall.ret.ok => ecall.ret.val.status = "Deleted"
    /\ (/\ ecall.fn \in {"start", "complete", "delete"}
        /\ ecall.before[1].status = "Deleted")
       => ecall.after.status = "Deleted"

\* The transition table: the statuses a task of each status may move to.
TransitionTable ==
    [Pending |-> {"Completed", "Waiting", "Deleted"},
     Waiting |-> {"Pending", "Completed", "Deleted"},
     Completed |-> {"Pending", "Waiting", "Deleted"},
     Deleted |-> {}]

\* The last call was update_task(task) for a stored task, with a description that
\* is not blank, and the database answered.
UpdatedStoredTask ==
    /\ ecall.fn = "update_task"
    /\ ecall.io = "ok"
    /\ ecall.before # None
    /\ ~IsBlank(ecall.arg.description)

\* C11: for every stored status `from` and requested status `to` with from # to,
\* update_task succeeds and persists `to` exactly when (from, to) is in the
\* transition table; for every other pair it fails with a Validation error that
\* names from and to, and the table is as it was.
C11_UpdateFollowsTransitionTable ==
    (UpdatedStoredTask /\ ecall.before[1].status # ecall.arg.status)
    => LET from == ecall.before[1].status
           to == ecall.arg.status
       IN  IF to \in TransitionTable[from]
           THEN /\ ecall.ret.ok
                /\ ecall.ret.val.status = to
                /\ store[ecall.id].status = StatusToString(to)
           ELSE /\ ~ecall.ret.ok
                /\ ecall.ret.err = "Validation"
                /\ ecall.ret.message = <<"Invalid status transition from",
                                         StatusToString(from), "to", StatusToString(to)>>
                /\ store = ecall.table

C11_Witness ==
    /\ UpdatedStoredTask
    /\ ecall.before[1].status = "Deleted"
    /\ ecall.arg.status = "Pending"
    /\ ~ecall.ret.ok
    /\ store = ecall.table

\* C12: update_task applies the transition check only when the requested status
\* differs from the stored one: an update that keeps the stored status s, for
\* every s, is not rejected as an illegal transition and is persisted with the
\* modified timestamp refreshed.
C12_SameStatusUpdateAccepted ==
    (UpdatedStoredTask /\ ecall.before[1].status = ecall.arg.status)
    => /\ ecall.ret.ok
       /\ store[ecall.id].description = ecall.arg.description
       /\ store[ecall.id].status = StatusToString(ecall.arg.status)
       /\ store[ecall.id].modified_date = ecall.at

\* The last call was the id-based operation fn on a stored task, and the database
\* answered.
CalledOnStoredTask(fn) ==
    /\ ecall.fn = fn
    /\ ecall.io = "ok"
    /\ ecall.before # None

\* C13: complete on a Pending or Waiting task succeeds, sets the status to
\* Completed and sets the end timestamp; on a Completed task it fails with
\* InvalidStatusTransition(completed, completed) and leaves every field of the
\* task, and the stored row, as it was.  So a complete that follows a successful
\* complete fails.  Both for Task::complete and for TaskEngine::complete_task.
C13_CompleteOnceOnly ==
    /\ ecall.fn = "complete" =>
          /\ ecall.before[1].status \in {"Pending", "Waiting"} =>
                /\ ecall.ret.ok
                /\ ecall.after.status = "Completed"
                /\ ecall.after.end_date = Some(ecall.at)
          /\ ecall.before[1].status = "Completed" =>
                /\ ecall.ret = ErrTransition("completed", "completed")
                /\ ecall.after = ecall.before[1]
          /\ ecall.ret.ok => ~task_complete(ecall.after, now)[1].ok
    /\ CalledOnStoredTask("complete_task") =>
          /\ ecall.before[1].status \in {"Pending", "Waiting"} =>
                /\ ecall.ret.ok
                /\ store[ecall.id].status = "completed"
                /\ store[ecall.id].end_date = Some(ecall.at)
          /\ ecall.before[1].status = "Completed" =>
                /\ ecall.ret = ErrTransition("completed", "completed")
                /\ store = ecall.table
          /\ ecall.ret.ok => ~engine_complete_task(store, ecall.id, now, "ok")[1].ok

C13_Witness ==
    /\ CalledOnStoredTask("complete_task")
    /\ ecall.before[1].status = "Completed"
    /\ ecall.before[1].end_date # None
    /\ ~ecall.ret.ok

\* C14: start succeeds exactly when the status is Pending or Waiting; on success
\* it sets the start timestamp and leaves the status as it was; on a Completed or
\* Deleted task it fails with InvalidStatusTransition and changes nothing: the
\* start timestamp, the modified timestamp and the stored row stay as they were.
\* Both for Task::start and for TaskEngine::start_task.
C14_StartOnlyWhenActive ==
    /\ ecall.fn = "start" =>
          IF ecall.before[1].status \in {"Pending", "Waiting"}
          THEN /\ ecall.ret.ok
               /\ ecall.after.start_date = Some(ecall.at)
               /\ ecall.after.status = ecall.before[1].status
          ELSE /\ ecall.ret = ErrTransition(StatusToString(ecall.before[1].status), "started")
               /\ ecall.after = ecall.before[1]
    /\ CalledOnStoredTask("start_task") =>
          IF ecall.before[1].status \in {"Pending", "Waiting"}
          THEN /\ ecall.ret.ok
               /\ store[ecall.id].start_date = Some(ecall.at)
               /\ store[ecall.id].status = StatusToString(ecall.before[1].status)
          ELSE /\ ecall.ret = ErrTransition(StatusToString(ecall.before[1].status), "started")
               /\ store = ecall.table

C14_Witness ==
    /\ CalledOnStoredTask("start_task")
    /\ ecall.before[1].status = "Completed"
    /\ ~ecall.ret.ok
    /\ store = ecall.table

\* C15: create_task fails with Validation for every empty or whitespace-only
\* description and then writes nothing to the table; for every other description
\* (the database answering) it stores a task with status Pending whose id differs
\* from the id of every task created before it.
C15_CreateValidatesDescription ==
    ecall.fn = "create_task" =>
        IF IsBlank(ecall.arg)
        THEN /\ ecall.ret = ErrValidation(<<"Task description cannot be empty">>)
             /\ store = ecall.table
        ELSE ecall.io = "ok" =>
             /\ ecall.ret.ok
             /\ ecall.ret.val.status = "Pending"
             /\ ecall.ret.val.id # None
             /\ \A i \in DOMAIN ecall.table : i < ecall.ret.val.id[1]
             /\ DOMAIN store = DOMAIN ecall.table \cup {ecall.ret.val.id[1]}
             /\ \A i \in DOMAIN ecall.table : store[i] = ecall.table[i]
             /\ store[ecall.ret.val.id[1]].status = "pending"
             /\ store[ecall.ret.val.id[1]].description = ecall.arg

C15_Witness ==
    /\ ecall.fn = "create_task"
    /\ ecall.ret.ok
    /\ ecall.ret.val.id = Some(2)
    /\ 1 \in DOMAIN ecall.table

\* The TaskEngine operations that take the id of a task.
IdFns ==
    {"get_task", "complete_task", "delete_task", "start_task", "stop_task",
     "annotate_task", "add_tag", "remove_tag"}

Strategies == {"LocalWins", "RemoteWins", "Manual", "Merge"}

\* merge_tasks as it would be if it kept the local tags and put the remote
\* annotations first
MergeKeepsLocalTags(local_task, remote_task, gt) ==
    [local_task EXCEPT
        !.modified_date = IF remote_task.modified_date > local_task.modified_date
                          THEN remote_task.modified_date ELSE @,
        !.annotations = remote_task.annotations \o local_task.annotations,
        !.priority = IF local_task.priority # None /\ remote_task.priority # None /\ gt
                     THEN remote_task.priority ELSE @]

\* merge_tasks as it would be if it started from the remote task
MergeFromRemote(local_task, remote_task, gt) ==
    [remote_task EXCEPT
        !.modified_date = IF remote_task.modified_date > local_task.modified_date
                          THEN remote_task.modified_date ELSE local_task.modified_date,
        !.tags = local_task.tags \cup remote_task.tags,
        !.annotations = local_task.annotations \o remote_task.annotations,
        !.priority = IF local_task.priority # None /\ remote_task.priority # None /\ gt
                     THEN remote_task.priority ELSE local_task.priority]

\* ConflictResolver::merge_tasks.  gt is the outcome of
\* `remote_priority > local_priority`: the source gives Priority no ordering, so
\* the comparison is left open.
merge_tasks(local_task, remote_task, gt) ==
    [local_task EXCEPT
        !.modified_date = IF remote_task.modified_date > local_task.modified_date
                          THEN remote_task.modified_date ELSE @,
        !.tags = local_task.tags \cup remote_task.tags,
        !.annotations = local_task.annotations \o remote_task.annotations,
        !.priority = IF local_task.priority # None /\ remote_task.priority # None /\ gt
                     THEN remote_task.priority ELSE @]

\* resolve_task_conflict as it would be if the strategy passed to the call were
\* ignored
ResolveByDefaultOnly(default, local_task, remote_task, strategy, gt) ==
    CASE default = "LocalWins" -> local_task
      [] default = "RemoteWins" -> remote_task
      [] default = "Manual" ->
            IF local_task.modified_date > remote_task.modified_date
            THEN local_task ELSE remote_task
      [] default = "Merge" -> merge_tasks(local_task, remote_task, gt)

\* ConflictResolver::resolve_task_conflict, for a resolver whose default strategy
\* is default; strategy is an Option.
resolve_task_conflict(default, local_task, remote_task, strategy, gt) ==
    LET chosen == UnwrapOr(strategy, default)
    IN  CASE chosen = "LocalWins" -> local_task
          [] chosen = "RemoteWins" -> remote_task
          [] chosen = "Manual" ->
                IF local_task.modified_date > remote_task.modified_date
                THEN local_task ELSE remote_task
          [] chosen = "Merge" -> merge_tasks(local_task, remote_task, gt)

\* serde_json::Value::as_object, a JSON value being an object with its map or
\* some other value
as_object(value) == IF value.object THEN Some(value.map) ELSE None

\* serde_json::Map::extend: the keys of both, the values of `more` where it has
\* the key
MapExtend(map, more) ==
    [k \in DOMAIN map \cup DOMAIN more |-> IF k \in DOMAIN more THEN more[k] ELSE map[k]]

\* ConflictResolver::merge_documents
merge_documents(local_document, remote_document) ==
    LET dated == [local_document EXCEPT
                    !.updated_at = IF remote_document.updated_at > local_document.updated_at
                                   THEN remote_document.updated_at ELSE @]
    IN  IF /\ local_document.metadata # None
           /\ remote_document.metadata # None
           /\ as_object(local_document.metadata[1]) # None
           /\ as_object(remote_document.metadata[1]) # None
        THEN [dated EXCEPT !.metadata =
                Some([object |-> TRUE,
                      map |-> MapExtend(as_object(local_document.metadata[1])[1],
                                        as_object(remote_document.metadata[1])[1])])]
        ELSE dated

\* resolve_document_conflict as it would be if Manual gave ties to the local side
ResolveDocumentTiesLocal(default, local_document, remote_document, strategy) ==
    LET chosen == UnwrapOr(strategy, default)
    IN  CASE chosen = "LocalWins" -> local_document
          [] chosen = "RemoteWins" -> remote_document
          [] chosen = "Manual" ->
                IF local_document.updated_at >= remote_document.updated_at
                THEN local_document ELSE remote_document
          [] chosen = "Merge" -> merge_documents(local_document, remote_document)

\* ConflictResolver::resolve_document_conflict
resolve_document_conflict(default, local_document, remote_document, strategy) ==
    LET chosen == UnwrapOr(strategy, default)
    IN  CASE chosen = "LocalWins" -> local_document
          [] chosen = "RemoteWins" -> remote_document
          [] chosen = "Manual" ->
                IF local_document.updated_at > remote_document.updated_at
                THEN local_document ELSE remote_document
          [] chosen = "Merge" -> merge_documents(local_document, remote_document)

\* The strategy argument: None or Some strategy.
StrategyArgs == {None} \cup {Some(st) : st \in Strategies}

\* The outcomes of the priority comparison that matter to a call: both when the
\* call merges two tasks that each have a priority, one otherwise.
GtOutcomes(default, local_task, remote_task, strategy) ==
    IF /\ UnwrapOr(strategy, default) = "Merge"
       /\ local_task.priority # None
       /\ remote_task.priority # None
    THEN BOOLEAN ELSE {FALSE}

\* The entry and modified timestamps of the tasks in conflict; the last pair is
\* a task modified before it was entered.
ConflictStamps == {<<0, 1>>, <<1, 2>>, <<2, 1>>}

\* What else tells the tasks in conflict apart: the copies went through
\* different stores (id) and were edited in different ways.
ConflictBodies ==
    { [id |-> Some(1), description |-> "a", status |-> "Pending",
       start_date |-> None, end_date |-> None,
       tags |-> {}, priority |-> None, annotations |-> <<>>],
      [id |-> Some(2), description |-> "b", status |-> "Completed",
       start_date |-> None, end_date |-> Some(1),
       tags |-> {"x", "y"}, priority |-> Some("High"),
       annotations |-> <<[entry |-> 0, description |-> "n"]>>],
      [id |-> None, description |-> "c", status |-> "Waiting",
       start_date |-> Some(0), end_date |-> None,
       tags |-> {"y", "z"}, priority |-> Some("Low"),
       annotations |-> <<[entry |-> 1, description |-> "m"]>>] }

\* The tasks in conflict: two copies of one task that went different ways.
ConflictTasks ==
    { [NewTask(b.description, "u1", ts[1]) EXCEPT
          !.id = b.id, !.status = b.status, !.start_date = b.start_date,
          !.end_date = b.end_date, !.modified_date = ts[2], !.tags = b.tags,
          !.priority = b.priority, !.annotations = b.annotations] :
        ts \in ConflictStamps, b \in ConflictBodies }

\* What tells the documents in conflict apart: their scalar fields and their
\* metadata, which is absent, a JSON value that is no object, or an object.
ConflictDocBodies ==
    { [title |-> "t", content |-> None, content_type |-> None, file_path |-> None,
       metadata |-> None],
      [title |-> "t", content |-> Some("c"), content_type |-> None, file_path |-> None,
       metadata |-> Some([object |-> FALSE, text |-> "s"])],
      [title |-> "r", content |-> Some("d"), content_type |-> Some("text/plain"),
       file_path |-> Some("p"),
       metadata |-> Some([object |-> TRUE, map |-> [k |-> 1, i |-> 1]])],
      [title |-> "s", content |-> None, content_type |-> Some("text/html"),
       file_path |-> None,
       metadata |-> Some([object |-> TRUE, map |-> [k |-> 2, j |-> 1]])] }

\* The documents in conflict: two copies of document 1.
ConflictDocuments ==
    { [id |-> Some(1), uuid |-> "d1", title |-> b.title, content |-> b.content,
       content_type |-> b.content_type, file_path |-> b.file_path,
       metadata |-> b.metadata, created_at |-> 0, updated_at |-> u] :
        b \in ConflictDocBodies, u \in {0, 1} }

\* A call of resolve_task_conflict(local_task, remote_task, strategy)
ResolveTask(local_task, remote_task, strategy, gt) ==
    /\ MayCall
    /\ rcall' = [fn |-> "resolve_task_conflict", local |-> local_task,
                 remote |-> remote_task, strategy |-> strategy, gt |-> gt,
                 ret |-> resolve_task_conflict(default_strategy, local_task,
                                               remote_task, strategy, gt)]
    /\ ecalls' = ecalls + 1
    /\ UNCHANGED <<qvars, kvars, gvars, cvars, store, next_rowid, cache, last_sync, now, mcall, mhist,
                   ecall, default_strategy>>

\* A call of resolve_document_conflict(local_document, remote_document, strategy)
ResolveDocument(local_document, remote_document, strategy) ==
    /\ MayCall
    /\ rcall' = [fn |-> "resolve_document_conflict", local |-> local_document,
                 remote |-> remote_document, strategy |-> strategy,
                 ret |-> resolve_document_conflict(default_strategy, local_document,
                                                   remote_document, strategy)]
    /\ ecalls' = ecalls + 1
    /\ UNCHANGED <<qvars, kvars, gvars, cvars, store, next_rowid, cache, last_sync, now, mcall, mhist,
                   ecall, default_strategy>>

\* ConflictResolver::new(default_strategy)
InitResolver ==
    /\ max_operations = 0
    /\ operations = <<>>
    /\ qlock = Unlocked
    /\ qcall = [p \in Callers |-> Idle]
    /\ next_seq = 0
    /\ removed_any = FALSE
    /\ store = <<>>
    /\ next_rowid = 1
    /\ cache = <<>>
    /\ last_sync = None
    /\ now = 0
    /\ mcall = [p \in Callers |-> Idle]
    /\ mhist = [clean |-> TRUE, deleted |-> {}]
    /\ ecall = NoCall
    /\ ecalls = 0
    /\ default_strategy \in Strategies
    /\ rcall = NoCall
    /\ documents = <<>>
    /\ ccall = NoCall
    /\ issue_mapping = <<>>
    /\ issues = <<>>
    /\ gcall = NoCall
    /\ klock = [l \in CacheLocks |-> Unlocked]
    /\ kcall = [p \in Callers |-> Idle]

NextResolver ==
    \/ \E local_task \in ConflictTasks, remote_task \in ConflictTasks,
          strategy \in StrategyArgs :
          \E gt \in GtOutcomes(default_strategy, local_task, remote_task, strategy) :
             ResolveTask(local_task, remote_task, strategy, gt)
    \/ \E local_document \in ConflictDocuments, remote_document \in ConflictDocuments,
          strategy \in StrategyArgs :
          ResolveDocument(local_document, remote_document, strategy)

\* A ConflictResolver with one caller.
SpecResolver == InitResolver /\ [][NextResolver]_vars

\* ---------------------------------------------------- Resolver claims

\* The strategy the last resolver call ran under, as the caller sees it: the one
\* passed, or the resolver's default when none was passed.
EffectiveStrategy == UnwrapOr(rcall.strategy, default_strategy)

\* C19: resolve_task_conflict under LocalWins returns the local task with every
\* field as it was, under RemoteWins the remote task with every field as it was;
\* when a strategy is passed the resolver's default has no influence on the
\* result, and when none is passed the result is the one the default passed
\* explicitly would give.
C19_NamedSideUnchangedPassedOverridesDefault ==
    rcall.fn = "resolve_task_conflict" =>
        /\ EffectiveStrategy = "LocalWins" => rcall.ret = rcall.local
        /\ EffectiveStrategy = "RemoteWins" => rcall.ret = rcall.remote
        /\ rcall.strategy # None =>
              \A d \in Strategies :
                 resolve_task_conflict(d, rcall.local, rcall.remote, rcall.strategy,
                                       rcall.gt) = rcall.ret
        /\ rcall.strategy = None =>
              \A d \in Strategies :
                 resolve_task_conflict(d, rcall.local, rcall.remote,
                                       Some(default_strategy), rcall.gt) = rcall.ret

\* A resolver whose default is LocalWins was passed RemoteWins for two different
\* tasks and returned the remote one.
C19_Witness ==
    /\ rcall.fn = "resolve_task_conflict"
    /\ default_strategy = "LocalWins"
    /\ rcall.strategy = Some("RemoteWins")
    /\ rcall.local # rcall.remote
    /\ rcall.ret = rcall.remote

\* The timestamp Manual compares: modified_date of a task, updated_at of a
\* document.
ManualStamp(fn, value) ==
    IF fn = "resolve_task_conflict" THEN value.modified_date ELSE value.updated_at

\* C20: under Manual, resolve_task_conflict returns the local task unchanged when
\* its modified timestamp is strictly later than the remote one's and the remote
\* task unchanged otherwise, ties included; resolve_document_conflict does the
\* same on updated_at.
C20_ManualTakesStrictlyLaterLocalElseRemote ==
    (rcall.fn \in {"resolve_task_conflict", "resolve_document_conflict"}
     /\ EffectiveStrategy = "Manual") =>
        rcall.ret = IF ManualStamp(rcall.fn, rcall.local) > ManualStamp(rcall.fn, rcall.remote)
                    THEN rcall.local ELSE rcall.remote

\* Two different documents with the same updated_at were resolved under Manual,
\* and the remote one came back.
C20_Witness ==
    /\ rcall.fn = "resolve_document_conflict"
    /\ EffectiveStrategy = "Manual"
    /\ rcall.local # rcall.remote
    /\ rcall.local.updated_at = rcall.remote.updated_at
    /\ rcall.ret = rcall.remote

\* ------------------------------- TaskEngine and SyncManager on one store

\* The Task values a caller has built with Task::new by now.
BuiltTasks == { NewTask("a", u, t) : u \in Uuids, t \in 0..now }

\* The Task values a caller hands to update_task: built by now under the second
\* uuid, then given the id of a row and a new description.
EditedTasks ==
    { [task EXCEPT !.id = Some(n), !.description = "b"] :
        task \in {built \in BuiltTasks : built.uuid = "u2"}, n \in RowIds }

\* The tasks the store holds, as get_task_by_id reads them.
StoredTasks == { row_to_task(i, store[i]) : i \in DOMAIN store }

\* LocalCache::get_all_cached_tasks, the Task of each
CachedTasks == { cache[k].task : k \in DOMAIN cache }

\* SyncManager::new and TaskEngine::new over the same fresh database
InitMixed ==
    /\ max_operations = MaxCap
    /\ operations = <<>>
    /\ qlock = Unlocked
    /\ qcall = [p \in Callers |-> Idle]
    /\ next_seq = 0
    /\ removed_any = FALSE
    /\ store = <<>>
    /\ next_rowid = 1
    /\ cache = <<>>
    /\ last_sync = None
    /\ now = 0
    /\ mcall = [p \in Callers |-> Idle]
    /\ mhist = [clean |-> TRUE, deleted |-> {}]
    /\ ecall = NoCall
    /\ ecalls = 0
    /\ default_strategy = "LocalWins"
    /\ rcall = NoCall
    /\ documents = <<>>
    /\ ccall = NoCall
    /\ issue_mapping = <<>>
    /\ issues = <<>>
    /\ gcall = NoCall
    /\ klock = [l \in CacheLocks |-> Unlocked]
    /\ kcall = [p \in Callers |-> Idle]

\* The remote copies the resolver is handed: tasks that came from elsewhere, one
\* of them modified before it was entered.
RemoteTasks == { task \in ConflictTasks : task.description = "b" /\ task.entry_date > 0 }

\* The caller makes MaxMut calls that write or resolve, whichever component they
\* go to.
MayAct == MutationsStarted + ecalls < MaxMut

\* Time passes between the calls of the manager.
TickBetweenCalls == mcall[1].pc = "idle"

NextMixed ==
    \/ MayAct /\ \E task \in BuiltTasks : MCreateStore(1, task, "ok")
    \/ MayAct /\ \E task \in EditedTasks : MUpdateStore(1, task, "ok")
    \/ MayAct /\ \E task_id \in RowIds : MDeleteStore(1, task_id, "ok")
    \/ MCache(1)
    \/ MEnqueue(1)
    \/ MGetCached(1)
    \/ \E order \in ListOrders(store) : MListStore(1, order, "ok")
    \/ MGetFill(1)
    \/ MSyncSnapshot(1)
    \/ MSyncSetLast(1)
    \/ MSyncMark(1)
    \/ MSyncRemove(1)
    \/ MReturn(1)
    \/ MayAct /\ \E uuid \in Uuids : ECreate("a", uuid, "ok")
    \/ MayAct /\ \E task \in EditedTasks : EUpdate(task, "ok")
    \/ MayAct /\ \E id \in RowIds : EComplete(id, "ok")
    \/ MayAct /\ \E id \in RowIds : EDelete(id, "ok")
    \/ MayAct /\ \E id \in RowIds : EStart(id, "ok")
    \/ MayAct /\ \E id \in RowIds : EStop(id, "ok")
    \/ MayAct /\ \E id \in RowIds : EAnnotate(id, "a", "ok")
    \/ MayAct /\ \E id \in RowIds : EAddTag(id, "x", "ok")
    \/ MayAct /\ \E id \in RowIds : ERemoveTag(id, "x", "ok")
    \/ MayAct /\ \E local_task \in CachedTasks,
                    remote_task \in StoredTasks \cup RemoteTasks,
                    strategy \in StrategyArgs \ {None} :
                    \E gt \in GtOutcomes(default_strategy, local_task, remote_task,
                                           strategy) :
                       ResolveTask(local_task, remote_task, strategy, gt)
    \/ TickBetweenCalls /\ Tick

\* A SyncManager and a TaskEngine over one store, with one caller whose calls
\* run one after the other while time passes.
SpecMixed == InitMixed /\ [][NextMixed]_vars

\* ------------------------------------------- claims on the shared store

\* modified >= entry, for a Task value or a row of the tasks table
Dated(task) == task.modified_date >= task.entry_date

\* C17: with a clock that never goes back, every task in the Task Store and
\* every task in the Local Cache has modified >= entry after any sequence of
\* TaskEngine and SyncManager calls, and resolve_task_conflict returns a task
\* with modified >= entry under every strategy whenever both its inputs have it.
C17_ModifiedNotBeforeEntry ==
    /\ \A i \in DOMAIN store : Dated(store[i])
    /\ \A k \in DOMAIN cache : Dated(cache[k].task)
    /\ (rcall.fn = "resolve_task_conflict" /\ Dated(rcall.local) /\ Dated(rcall.remote))
          => Dated(rcall.ret)

\* The store and the cache hold a task, the clock has moved on, and a Merge of
\* the cached task with a remote one, both with modified >= entry, took the later
\* remote timestamp.
C17_Witness ==
    /\ store # <<>>
    /\ now > 0
    /\ rcall.fn = "resolve_task_conflict"
    /\ rcall.local \in CachedTasks
    /\ rcall.strategy = Some("Merge")
    /\ Dated(rcall.local) /\ Dated(rcall.remote)
    /\ rcall.ret.modified_date > rcall.local.modified_date

\* C18: no step of a TaskEngine or SyncManager operation changes the uuid
\* stored under an id: every row that is there before and after the step keeps
\* the uuid it was created with, also when update_task is handed a Task that
\* carries another uuid.
C18_StoredIdAndUuidStable ==
    [][\A i \in DOMAIN store :
          i \in DOMAIN store' => store'[i].uuid = store[i].uuid]_vars

\* update_task was handed a Task whose uuid differs from the stored one, the
\* update was persisted, and the row still has the uuid it had.
C18_Witness ==
    /\ ecall.fn = "update_task"
    /\ ecall.ret.ok
    /\ ecall.before # None
    /\ ecall.arg.uuid # ecall.before[1].uuid
    /\ ecall.id \in DOMAIN store
    /\ store[ecall.id].description = ecall.arg.description
    /\ store[ecall.id].description # ecall.before[1].description
    /\ store[ecall.id].uuid = ecall.before[1].uuid

\* ------------------------------------------------- claims on Merge

\* The last resolver call merged two tasks.
MergedTasks == rcall.fn = "resolve_task_conflict" /\ EffectiveStrategy = "Merge"

\* The last resolver call merged two documents.
MergedDocuments == rcall.fn = "resolve_document_conflict" /\ EffectiveStrategy = "Merge"

\* C21: under Merge the merged task has a tag exactly when the local or the
\* remote task has it, and its annotations are the local ones in their order
\* followed by the remote ones in their order, none dropped as a duplicate.
C21_MergeUnitesTagsAndAppendsAnnotations ==
    MergedTasks =>
        LET l == rcall.local.annotations
            r == rcall.remote.annotations
            m == rcall.ret.annotations
        IN  /\ \A tag \in rcall.ret.tags \cup rcall.local.tags \cup rcall.remote.tags :
                  tag \in rcall.ret.tags <=>
                     (tag \in rcall.local.tags \/ tag \in rcall.remote.tags)
            /\ Len(m) = Len(l) + Len(r)
            /\ \A i \in 1..Len(l) : m[i] = l[i]
            /\ \A j \in 1..Len(r) : m[Len(l) + j] = r[j]

\* Tags {x, y} and {y, z} merged to {x, y, z}, and one annotation on each side
\* gave the local one followed by the remote one.
C21_Witness ==
    /\ MergedTasks
    /\ rcall.local.tags = {"x", "y"}
    /\ rcall.remote.tags = {"y", "z"}
    /\ rcall.ret.tags = {"x", "y", "z"}
    /\ Len(rcall.local.annotations) = 1
    /\ Len(rcall.remote.annotations) = 1
    /\ rcall.local.annotations # rcall.remote.annotations
    /\ rcall.ret.annotations = <<rcall.local.annotations[1], rcall.remote.annotations[1]>>

\* High above Medium above Low.
PriorityRank(pr) ==
    CASE pr = "High" -> 3
      [] pr = "Medium" -> 2
      [] pr = "Low" -> 1

\* C22: under Merge the merged priority is the higher of the two when both
\* tasks have one, the one there is when exactly one task has one, and absent
\* when neither has.
C22_MergedPriorityIsHigherOrPresent ==
    MergedTasks =>
        LET l == rcall.local.priority
            r == rcall.remote.priority
        IN  rcall.ret.priority =
               IF l # None /\ r # None
               THEN (IF PriorityRank(r[1]) > PriorityRank(l[1]) THEN r ELSE l)
               ELSE IF l # None THEN l ELSE r

\* C23: under Merge the merged task's modified timestamp is the later of the
\* two, and every field but modified, tags, annotations and priority is the
\* local task's.
C23_MergeKeepsLocalFieldsTakesLaterStamp ==
    MergedTasks =>
        /\ rcall.ret.modified_date =
              IF rcall.remote.modified_date > rcall.local.modified_date
              THEN rcall.remote.modified_date ELSE rcall.local.modified_date
        /\ [rcall.ret EXCEPT !.modified_date = 0, !.tags = {}, !.annotations = <<>>,
                             !.priority = None]
           = [rcall.local EXCEPT !.modified_date = 0, !.tags = {}, !.annotations = <<>>,
                                 !.priority = None]

\* A local task was merged with a remote one that was modified later and has
\* another id, description, status and dates: the result has the remote
\* timestamp and the local id, description and status.
C23_Witness ==
    /\ MergedTasks
    /\ rcall.remote.modified_date > rcall.local.modified_date
    /\ rcall.remote.id # rcall.local.id
    /\ rcall.remote.description # rcall.local.description
    /\ rcall.remote.status # rcall.local.status
    /\ rcall.remote.entry_date # rcall.local.entry_date
    /\ rcall.remote.end_date # rcall.local.end_date
    /\ rcall.ret.modified_date = rcall.remote.modified_date
    /\ rcall.ret.id = rcall.local.id
    /\ rcall.ret.description = rcall.local.description
    /\ rcall.ret.status = rcall.local.status

\* The title, content, content type and file path of a document.
Scalars(document) ==
    <<document.title, document.content, document.content_type, document.file_path>>

\* C24: under Merge the merged document has the title, content, content type
\* and file path of the document that was updated later, and when both metadata
\* values are objects the merged metadata has every key of either with the
\* remote value on the keys both have.
C24_MergedDocumentTakesLaterScalars ==
    MergedDocuments =>
        LET l == rcall.local
            r == rcall.remote
        IN  /\ r.updated_at > l.updated_at => Scalars(rcall.ret) = Scalars(r)
            /\ l.updated_at > r.updated_at => Scalars(rcall.ret) = Scalars(l)
            /\ (/\ l.metadata # None /\ r.metadata # None
                /\ l.metadata[1].object /\ r.metadata[1].object)
                  => /\ rcall.ret.metadata # None
                     /\ rcall.ret.metadata[1].object
                     /\ LET lm == l.metadata[1].map
                            rm == r.metadata[1].map
                            mm == rcall.ret.metadata[1].map
                        IN  /\ DOMAIN mm = DOMAIN lm \cup DOMAIN rm
                            /\ \A key \in DOMAIN mm :
                                  mm[key] = IF key \in DOMAIN rm THEN rm[key] ELSE lm[key]

\* ------------------------------------------------ LocalCache, called directly

\* enum SyncStatus; Failed stands for Failed { error } with the one error text
\* the callers use.
SyncStatuses == {"Pending", "InProgress", "Completed", "Failed"}

\* The Task values the callers cache: two versions of tasks 1 and 2, and a task
\* that has no id yet.
CacheTaskInputs ==
    { [NewTask(d, "u1", 0) EXCEPT !.id = Some(n)] : d \in {"a", "b"}, n \in RowIds }
    \cup { NewTask("a", "u2", 0) }

\* The version numbers the callers pass.
Versions == {1, 2}

\* The ids the callers name: the key of a task without id, and the ids of tasks.
CacheIds == {0} \cup RowIds

\* The documents the callers cache.
CacheDocumentInputs ==
    { document \in ConflictDocuments : document.metadata = None }

\* What a call on the LocalCache found: the three fields as they were, and the
\* time of the call.
CacheCallRecord(fn, arg) ==
    [fn |-> fn, arg |-> arg, at |-> now, tasks |-> cache, documents |-> documents,
     last_sync |-> last_sync]

\* A call of cache_task(task, version)
CacheTask(task, version) ==
    /\ MayCall
    /\ cache' = cache_task(cache, task, version, now)
    /\ ccall' = CacheCallRecord("cache_task", [task |-> task, version |-> version])
    /\ ecalls' = ecalls + 1
    /\ UNCHANGED <<qvars, kvars, gvars, rvars, store, next_rowid, last_sync, now, mcall, mhist, ecall,
                   documents>>

\* A call of update_task_sync_status(task_id, status)
UpdateTaskSyncStatus(task_id, status) ==
    /\ MayCall
    /\ cache' = update_task_sync_status(cache, task_id, status, now)
    /\ ccall' = CacheCallRecord("update_task_sync_status",
                                [task_id |-> task_id, status |-> status])
    /\ ecalls' = ecalls + 1
    /\ UNCHANGED <<qvars, kvars, gvars, rvars, store, next_rowid, last_sync, now, mcall, mhist, ecall,
                   documents>>

\* A call of cache_document(document, version)
CacheDocument(document, version) ==
    /\ MayCall
    /\ documents' = cache_document(documents, document, version, now)
    /\ ccall' = CacheCallRecord("cache_document",
                                [document |-> document, version |-> version])
    /\ ecalls' = ecalls + 1
    /\ UNCHANGED <<qvars, kvars, gvars, rvars, store, next_rowid, cache, last_sync, now, mcall, mhist,
                   ecall>>

\* A call of update_document_sync_status(document_id, status)
UpdateDocumentSyncStatus(document_id, status) ==
    /\ MayCall
    /\ documents' = update_document_sync_status(documents, document_id, status, now)
    /\ ccall' = CacheCallRecord("update_document_sync_status",
                                [document_id |-> document_id, status |-> status])
    /\ ecalls' = ecalls + 1
    /\ UNCHANGED <<qvars, kvars, gvars, rvars, store, next_rowid, cache, last_sync, now, mcall, mhist,
                   ecall>>

\* A call of set_last_sync(timestamp)
SetLastSync(timestamp) ==
    /\ MayCall
    /\ last_sync' = Some(timestamp)
    /\ ccall' = CacheCallRecord("set_last_sync", [timestamp |-> timestamp])
    /\ ecalls' = ecalls + 1
    /\ UNCHANGED <<qvars, kvars, gvars, rvars, store, next_rowid, cache, now, mcall, mhist, ecall,
                   documents>>

\* A call of clear()
CacheClear ==
    /\ MayCall
    /\ cache' = <<>>
    /\ documents' = <<>>
    /\ last_sync' = None
    /\ ccall' = CacheCallRecord("clear", None)
    /\ ecalls' = ecalls + 1
    /\ UNCHANGED <<qvars, kvars, gvars, rvars, store, next_rowid, now, mcall, mhist, ecall>>

\* LocalCache::new
InitCache ==
    /\ max_operations = 0
    /\ operations = <<>>
    /\ qlock = Unlocked
    /\ qcall = [p \in Callers |-> Idle]
    /\ next_seq = 0
    /\ removed_any = FALSE
    /\ store = <<>>
    /\ next_rowid = 1
    /\ cache = <<>>
    /\ last_sync = None
    /\ now = 0
    /\ mcall = [p \in Callers |-> Idle]
    /\ mhist = [clean |-> TRUE, deleted |-> {}]
    /\ ecall = NoCall
    /\ ecalls = 0
    /\ default_strategy = "LocalWins"
    /\ rcall = NoCall
    /\ documents = <<>>
    /\ ccall = NoCall
    /\ issue_mapping = <<>>
    /\ issues = <<>>
    /\ gcall = NoCall
    /\ klock = [l \in CacheLocks |-> Unlocked]
    /\ kcall = [p \in Callers |-> Idle]

NextCache ==
    \/ \E task \in CacheTaskInputs, version \in Versions : CacheTask(task, version)
    \/ \E task_id \in CacheIds, status \in SyncStatuses :
          UpdateTaskSyncStatus(task_id, status)
    \/ \E document \in CacheDocumentInputs : CacheDocument(document, 1)
    \/ \E status \in {"Completed", "Failed"} : UpdateDocumentSyncStatus(1, status)
    \/ SetLastSync(now)
    \/ CacheClear
    \/ Tick

\* A LocalCache with one caller, whose calls run one after the other.
SpecCache == InitCache /\ [][NextCache]_vars

\* ------------------------------------------- claims on the LocalCache

\* C25: after cache_task(t, v) the cache holds one entry under t's id, with task
\* t, version v and sync status Pending whatever the entry it replaced had; the
\* entries of the other ids, the documents and the last-sync timestamp are as
\* they were.
C25_CacheTaskOverwritesAsPending ==
    ccall.fn = "cache_task" =>
        LET key == UnwrapOr(ccall.arg.task.id, 0)
        IN  /\ DOMAIN cache = DOMAIN ccall.tasks \cup {key}
            /\ cache[key].task = ccall.arg.task
            /\ cache[key].version = ccall.arg.version
            /\ cache[key].sync_status = "Pending"
            /\ \A k \in DOMAIN ccall.tasks \ {key} : cache[k] = ccall.tasks[k]
            /\ documents = ccall.documents
            /\ last_sync = ccall.last_sync

\* cache_task replaced an entry that was Failed by another task under another
\* version while a second id was cached, and the entry is Pending.
C25_Witness ==
    /\ ccall.fn = "cache_task"
    /\ ccall.arg.task.id = Some(1)
    /\ 1 \in DOMAIN ccall.tasks
    /\ ccall.tasks[1].sync_status = "Failed"
    /\ ccall.tasks[1].task # ccall.arg.task
    /\ ccall.tasks[1].version # ccall.arg.version
    /\ cache[1].sync_status = "Pending"

\* C30: update_task_sync_status(id, s) on a cached id sets that entry's status
\* to s and its last-modified stamp, and leaves its task, its version, the other
\* entries, the documents and the last-sync timestamp as they were; on an id that
\* is not cached nothing changes and no entry appears.
C30_StatusUpdateChangesOnlyStatusAndStamp ==
    ccall.fn = "update_task_sync_status" =>
        LET id == ccall.arg.task_id
        IN  /\ DOMAIN cache = DOMAIN ccall.tasks
            /\ id \in DOMAIN ccall.tasks =>
                  /\ cache[id].sync_status = ccall.arg.status
                  /\ cache[id].last_modified = ccall.at
                  /\ cache[id].task = ccall.tasks[id].task
                  /\ cache[id].version = ccall.tasks[id].version
            /\ \A k \in DOMAIN ccall.tasks \ {id} : cache[k] = ccall.tasks[k]
            /\ documents = ccall.documents
            /\ last_sync = ccall.last_sync

\* With two ids cached, the status of one went from Pending to Failed at a later
\* time than it was cached; the other entry is as it was.
C30_Witness ==
    /\ ccall.fn = "update_task_sync_status"
    /\ ccall.arg.task_id = 1
    /\ DOMAIN ccall.tasks = {1, 2}
    /\ ccall.tasks[1].sync_status = "Pending"
    /\ ccall.arg.status = "Failed"
    /\ cache[1].sync_status = "Failed"
    /\ cache[1].last_modified > ccall.tasks[1].last_modified
    /\ cache[2] = ccall.tasks[2]

\* ------------------------------- claims on the SyncManager and its cache

\* C26: the sync status of a cached task advances Pending -> InProgress ->
\* {Completed | Failed}: no step changes an entry's status to Completed or
\* Failed unless it was InProgress, nor to InProgress unless it was Pending.
C26_SyncStatusAdvancesInOrder ==
    [][\A k \in DOMAIN cache :
          (k \in DOMAIN cache' /\ cache'[k].sync_status # cache[k].sync_status) =>
             /\ cache'[k].sync_status \in {"Completed", "Failed"} =>
                   cache[k].sync_status = "InProgress"
             /\ cache'[k].sync_status = "InProgress" =>
                   cache[k].sync_status = "Pending"]_vars

\* C27: each time create_task or update_task overwrites the cached entry of an
\* id, the new entry's version is greater than that of the entry it replaced.
C27_VersionGrowsOnOverwrite ==
    [][\A p \in Callers :
          (mcall[p].pc = "cache" /\ mcall'[p].pc = "enqueue") =>
             LET key == UnwrapOr(mcall[p].task.id, 0)
             IN  key \in DOMAIN cache => cache'[key].version > cache[key].version]_vars

\* The tasks list_tasks(None) returns, as a set.
ListedTasks == { row_to_task(i, store[i]) : i \in ListedIds(store) }

\* C28: get_tasks() answers from the cache, without a call on the Task Store,
\* when the cache holds a task; otherwise it returns what list_tasks(None)
\* returns and leaves a Pending cache entry for each task returned; an error of
\* the Task Store on the way is returned and leaves the cache empty.
C28_GetTasksPrefersCacheFallsBackToStore ==
    [][/\ (mcall[1].pc = "idle" /\ mcall'[1].pc # "idle" /\ mcall'[1].fn = "get_tasks") =>
            IF cache # <<>>
            THEN /\ mcall'[1].pc = "done"
                 /\ mcall'[1].ret = Ok({cache[k].task : k \in DOMAIN cache})
                 /\ cache' = cache
            ELSE mcall'[1].pc = "list" /\ cache' = cache
       /\ (mcall[1].pc = "list" /\ mcall'[1].pc = "done") =>
            /\ cache' = <<>>
            /\ mcall'[1].ret.ok => (ListedTasks = {} /\ mcall'[1].ret = Ok({}))
       /\ (mcall[1].pc = "list" /\ mcall'[1].pc = "fill") =>
            {mcall'[1].tasks[i] : i \in DOMAIN mcall'[1].tasks} = ListedTasks
       /\ (mcall[1].pc = "fill" /\ mcall'[1].pc = "done") =>
            /\ mcall'[1].ret = Ok(ListedTasks)
            /\ \A task \in ListedTasks :
                  /\ task.id[1] \in DOMAIN cache'
                  /\ cache'[task.id[1]].task = task
                  /\ cache'[task.id[1]].sync_status = "Pending"
            /\ DOMAIN cache' = ListedIds(store)]_vars

\* Before any create or update, get_tasks() found the cache empty, returned the
\* two tasks the store lists and left a Pending entry for each.
C28_Witness ==
    /\ mcall[1].pc = "done"
    /\ mcall[1].fn = "get_tasks"
    /\ next_seq = 0
    /\ mcall[1].ret = Ok(ListedTasks)
    /\ Cardinality(ListedTasks) = 2
    /\ DOMAIN cache = {1, 2}
    /\ \A k \in DOMAIN cache : cache[k].sync_status = "Pending"

\* ------------------------------------------------------ Task::urgency_score

\* Timestamps of the urgency runs count half days, so that a Duration has whole
\* days and a remainder.
HalfDaysPerDay == 2

\* chrono::Duration::num_days: whole days, rounded towards zero
num_days(duration) ==
    IF duration >= 0 THEN duration \div HalfDaysPerDay
    ELSE -((-duration) \div HalfDaysPerDay)

\* urgency_score as it would be if a due date in the past added nothing
UrgencyForgetsOverdue(task, t) ==
    LET priority_score ==
            IF task.priority = None THEN 0
            ELSE CASE task.priority[1] = "High" -> 10
                   [] task.priority[1] = "Medium" -> 5
                   [] task.priority[1] = "Low" -> 1
                   [] OTHER -> task.priority[1]
        age_days == num_days(t - task.entry_date)
    IN  priority_score + (IF age_days > 30 THEN 2 ELSE IF age_days > 7 THEN 1 ELSE 0)

\* Task::urgency_score with the clock at t.  The scores are whole numbers that
\* f64 holds exactly.
urgency_score(task, t) ==
    LET priority_score ==
            IF task.priority = None THEN 0
            ELSE CASE task.priority[1] = "High" -> 10
                   [] task.priority[1] = "Medium" -> 5
                   [] task.priority[1] = "Low" -> 1
                   [] OTHER -> task.priority[1]
        due_score ==
            IF task.due_date = None THEN 0
            ELSE IF t > task.due_date[1] THEN 15
            ELSE LET days_until_due == num_days(task.due_date[1] - t)
                 IN  IF days_until_due <= 1 THEN 10
                     ELSE IF days_until_due <= 7 THEN 5
                     ELSE 0
        age_days == num_days(t - task.entry_date)
        age_score == IF age_days > 30 THEN 2 ELSE IF age_days > 7 THEN 1 ELSE 0
    IN  priority_score + due_score + age_score

\* The clock of the urgency runs, in half days.
UrgencyNow == 80

\* The priorities of the tasks scored: none and the three named ones.
UrgencyPriorities == {None, Some("High"), Some("Medium"), Some("Low")}

\* The due dates of the tasks scored: none, a day and half a day ago, now, and
\* from half a day to eight days ahead.
UrgencyDueDates ==
    {None} \cup {Some(UrgencyNow + d) : d \in {-2, -1, 0, 1, 2, 3, 4, 14, 15, 16}}

\* The entry dates of the tasks scored: now, and 7.5, 8, 30.5 and 31 days ago.
UrgencyEntryDates == {UrgencyNow - d : d \in {0, 15, 16, 61, 62}}

\* The tasks scored.
UrgencyTasks ==
    { [NewTask("a", "u1", e) EXCEPT !.priority = pr, !.due_date = due] :
        e \in UrgencyEntryDates, pr \in UrgencyPriorities, due \in UrgencyDueDates }

\* A call of task.urgency_score(): it takes &self, so the task is as it was.
EUrgencyScore(task) ==
    /\ MayCall
    /\ ecall' = [fn |-> "urgency_score", id |-> 0, at |-> now, before |-> Some(task),
                 ret |-> urgency_score(task, now), after |-> task]
    /\ ecalls' = ecalls + 1
    /\ UNCHANGED <<qvars, kvars, gvars, cvars, rvars, store, next_rowid, cache, last_sync, now, mcall,
                   mhist>>

\* A caller that holds Task values, with the clock at UrgencyNow
InitUrgency ==
    /\ max_operations = 0
    /\ operations = <<>>
    /\ qlock = Unlocked
    /\ qcall = [p \in Callers |-> Idle]
    /\ next_seq = 0
    /\ removed_any = FALSE
    /\ store = <<>>
    /\ next_rowid = 1
    /\ cache = <<>>
    /\ last_sync = None
    /\ now = UrgencyNow
    /\ mcall = [p \in Callers |-> Idle]
    /\ mhist = [clean |-> TRUE, deleted |-> {}]
    /\ ecall = NoCall
    /\ ecalls = 0
    /\ default_strategy = "LocalWins"
    /\ rcall = NoCall
    /\ documents = <<>>
    /\ ccall = NoCall
    /\ issue_mapping = <<>>
    /\ issues = <<>>
    /\ gcall = NoCall
    /\ klock = [l \in CacheLocks |-> Unlocked]
    /\ kcall = [p \in Callers |-> Idle]

NextUrgency == \E task \in UrgencyTasks : EUrgencyScore(task)

\* A caller that scores the tasks it holds.
SpecUrgency == InitUrgency /\ [][NextUrgency]_vars

\* C29: for tasks that differ only in priority and due date, scored at the same
\* instant, High with a due date in the past scores more than High with no due
\* date, which scores more than Low with no due date; scoring changes no field
\* of the task.
C29_UrgencyOrdersPriorityAndOverdue ==
    ecall.fn = "urgency_score" =>
        LET task == ecall.before[1]
            high_no_due == [task EXCEPT !.priority = Some("High"), !.due_date = None]
            low_no_due == [task EXCEPT !.priority = Some("Low"), !.due_date = None]
        IN  /\ ecall.after = task
            /\ (/\ task.priority = Some("High")
                /\ task.due_date # None
                /\ task.due_date[1] < ecall.at)
                  => /\ ecall.ret > urgency_score(high_no_due, ecall.at)
                     /\ urgency_score(high_no_due, ecall.at)
                           > urgency_score(low_no_due, ecall.at)

\* A task of priority High that was due half a day ago and entered 31 days ago
\* was scored 27: 10 for the priority, 15 for being overdue, 2 for its age.
C29_Witness ==
    /\ ecall.fn = "urgency_score"
    /\ ecall.before[1].priority = Some("High")
    /\ ecall.before[1].due_date = Some(ecall.at - 1)
    /\ ecall.before[1].entry_date = ecall.at - 62
    /\ ecall.ret = 27
    /\ ecall.after = ecall.before[1]

\* --------------------------------------- claims on deletion by the engine

\* C31: TaskEngine::delete_task(id) on a stored task whose status is not Deleted,
\* with the database answering, returns the task with status Deleted and keeps
\* the row: get_task(id) gives the task with status Deleted, list_tasks(None)
\* leaves it out, and the table has the rows it had.
C31_EngineDeleteMarksAndKeepsRow ==
    (/\ ecall.fn = "delete_task"
     /\ ecall.io = "ok"
     /\ ecall.before # None
     /\ ecall.before[1].status # "Deleted")
       => /\ ecall.ret.ok
          /\ ecall.ret.val.status = "Deleted"
          /\ engine_get_task(store, ecall.id, "ok") = Ok(Some(ecall.ret.val))
          /\ ecall.id \notin ListedIds(store)
          /\ \A order \in ListOrders(store) :
                \A i \in DOMAIN order : storage_list_tasks(store, order)[i].id # Some(ecall.id)
          /\ DOMAIN store = DOMAIN ecall.table
          /\ \A i \in DOMAIN store \ {ecall.id} : store[i] = ecall.table[i]

\* Task 1 of two stored tasks was deleted: both rows are there and only task 2
\* is listed.
C31_Witness ==
    /\ ecall.fn = "delete_task"
    /\ ecall.io = "ok"
    /\ ecall.id = 1
    /\ ecall.before # None
    /\ ecall.before[1].status = "Pending"
    /\ DOMAIN store = {1, 2}
    /\ store[1].status = "deleted"
    /\ ListedIds(store) = {2}

\* ------------------------------------------------------ GitHubSyncProvider

\* config.sync_mode of the provider: issues of one repository.
ProviderSyncMode == "issues"

\* An issue of the repository.  task_id is history: the id of the task whose
\* push created the issue, which GitHub does not hold.
NewIssue(number, title, task_id) ==
    [number |-> number, title |-> title, state |-> "open", task_id |-> task_id]

\* GitHubClient::create_issue(title, None) when the request succeeds: the
\* repository numbers the new issue.
create_issue(remote, title, task_id) ==
    Append(remote, NewIssue(Len(remote) + 1, title, task_id))

\* GitHubClient::update_issue(number, Some(title), None, Some(state)):
\* <<answered with success, issues>>; the PATCH of a number the repository
\* does not have is answered 404.
update_issue(remote, number, title, state) ==
    IF number \in DOMAIN remote
    THEN <<TRUE, [remote EXCEPT ![number].title = title, ![number].state = state]>>
    ELSE <<FALSE, remote>>

\* The loop of push_tasks over the tasks from position i on, in issues mode:
\* <<result, issues>>.  fail_at is the position of the task whose request gets
\* no answer or an error status (0: none); `?` returns at it.
RECURSIVE PushIssuesFrom(_, _, _, _, _)
PushIssuesFrom(mapping, remote, tasks, i, fail_at) ==
    IF i > Len(tasks) THEN <<Ok(<<>>), remote>>
    ELSE IF i = fail_at THEN <<Err("Network"), remote>>
    ELSE LET task == tasks[i]
             key == UnwrapOr(task.id, 0)
         IN  IF key \in DOMAIN mapping
             THEN LET r == update_issue(remote, mapping[key], task.description,
                                        IF task.status = "Completed" THEN "closed"
                                        ELSE "open")
                  IN  IF r[1] THEN PushIssuesFrom(mapping, r[2], tasks, i + 1, fail_at)
                      ELSE <<Err("Network"), remote>>
             ELSE PushIssuesFrom(mapping, create_issue(remote, task.description, key),
                                 tasks, i + 1, fail_at)

\* GitHubSyncProvider::push_tasks(&self, tasks): <<result, issues>>.  It reads
\* issue_mapping and, taking &self, leaves it as it is.
push_tasks(mode, mapping, remote, tasks, fail_at) ==
    IF mode = "issues" THEN PushIssuesFrom(mapping, remote, tasks, 1, fail_at)
    ELSE <<Err("Configuration"), remote>>

\* The tasks pushed: tasks 1 and 2 under two descriptions, and task 1 completed.
PushTasks ==
    { [NewTask(d, "u1", 0) EXCEPT !.id = Some(i)] : d \in {"a", "b"}, i \in {1, 2} }
    \cup { [NewTask("a", "u1", 0) EXCEPT !.id = Some(1), !.status = "Completed"] }

\* The slices pushed: up to two tasks of different ids.
PushSlices ==
    {<<>>} \cup { <<task>> : task \in PushTasks }
    \cup { s \in PushTasks \X PushTasks : s[1].id # s[2].id }

\* A call of push_tasks(tasks)
PushTasksCall(tasks, fail_at) ==
    /\ MayCall
    /\ LET r == push_tasks(ProviderSyncMode, issue_mapping, issues, tasks, fail_at)
       IN  /\ issues' = r[2]
           /\ gcall' = [fn |-> "push_tasks", tasks |-> tasks, fail_at |-> fail_at,
                        before |-> issues, ret |-> r[1]]
    /\ ecalls' = ecalls + 1
    /\ UNCHANGED <<qvars, kvars, cvars, rvars, issue_mapping, store, next_rowid, cache, last_sync,
                   now, mcall, mhist, ecall>>

\* GitHubSyncProvider::new over a repository without issues
InitProvider ==
    /\ max_operations = 0
    /\ operations = <<>>
    /\ qlock = Unlocked
    /\ qcall = [p \in Callers |-> Idle]
    /\ next_seq = 0
    /\ removed_any = FALSE
    /\ store = <<>>
    /\ next_rowid = 1
    /\ cache = <<>>
    /\ last_sync = None
    /\ now = 0
    /\ mcall = [p \in Callers |-> Idle]
    /\ mhist = [clean |-> TRUE, deleted |-> {}]
    /\ ecall = NoCall
    /\ ecalls = 0
    /\ default_strategy = "LocalWins"
    /\ rcall = NoCall
    /\ documents = <<>>
    /\ ccall = NoCall
    /\ issue_mapping = <<>>
    /\ issues = <<>>
    /\ gcall = NoCall
    /\ klock = [l \in CacheLocks |-> Unlocked]
    /\ kcall = [p \in Callers |-> Idle]

NextProvider ==
    \E tasks \in PushSlices : \E fail_at \in 0..Len(tasks) : PushTasksCall(tasks, fail_at)

\* One GitHubSyncProvider with one caller.
SpecProvider == InitProvider /\ [][NextProvider]_vars

\* The issues whose creation was the push of the task of this id.
IssuesCreatedFor(id) == { n \in DOMAIN issues : issues[n].task_id = id }

\* C32: push_tasks is create-or-update per task: after any number of pushes in
\* issues mode the repository has at most one issue created for each task id.
C32_AtMostOneIssuePerTask ==
    \A id \in RowIds : Cardinality(IssuesCreatedFor(id)) <= 1

\* ------------------------------- claims on failures of the SyncManager's store

MutationFns == {"create_task", "update_task", "delete_task"}

\* Caller p makes the store call of a mutation in this step.
StoreCallOf(p) ==
    /\ mcall[p].pc = "idle"
    /\ mcall'[p].pc # "idle"
    /\ mcall'[p].fn \in MutationFns

\* C33: a create_task, update_task or delete_task whose store call fails returns
\* the store's error, and a delete_task whose store call deleted no row returns
\* false; such a call ends at its store call, and that step changes neither the
\* cache nor the queue.  A call goes on to the cache or the queue only after a
\* create that added a row, an update the store accepted, or a delete that
\* removed a row.
C33_FailedStoreWriteLeavesCacheAndQueue ==
    [][\A p \in Callers :
        StoreCallOf(p) =>
          /\ cache' = cache /\ operations' = operations /\ next_seq' = next_seq
          /\ mcall'[p].pc \in {"done", "cache", "enqueue"}
          /\ mcall'[p].pc = "done" =>
                /\ mcall'[p].ret \in {Err("Storage"), Err("Validation"), Ok(FALSE)}
                /\ mcall'[p].ret = Ok(FALSE) => mcall'[p].fn = "delete_task"
                /\ store' = store
          /\ (mcall'[p].fn = "create_task" /\ store' = store) => mcall'[p].pc = "done"
          /\ (mcall'[p].fn = "delete_task" /\ store' = store) => mcall'[p].pc = "done"]_vars

\* An update_task failed in the store and a delete_task found no row, after a
\* create_task had filled the cache and the queue.
C33_Witness ==
    /\ mcall[1].pc = "done" /\ mcall[1].fn = "update_task" /\ mcall[1].ret = Err("Storage")
    /\ mcall[2].pc = "done" /\ mcall[2].fn = "delete_task" /\ mcall[2].ret = Ok(FALSE)
    /\ DOMAIN cache = {1}
    /\ Len(operations) = 1

\* No caller of the SyncManager is inside a call.
NoCallInFlight == \A p \in Callers : mcall[p].pc \in {"idle", "done"}

\* C34: between calls, a cached entry of sync status Completed has no operation
\* of its task id in the queue.
C34_CompletedEntryHasNothingQueued ==
    NoCallInFlight =>
        \A id \in DOMAIN cache :
            cache[id].sync_status = "Completed" =>
                \A k \in DOMAIN operations : OpTaskId(operations[k]) # id

\* ---------------------------------------- concurrent update_task calls

\* The Task values two callers hand to update_task for the same stored task, and
\* one for another id.
ConcurrentUpdateInputs ==
    { [NewTask(d, "u1", 0) EXCEPT !.id = Some(1)] : d \in {"b", "c"} }
    \cup { [NewTask("b", "u2", 0) EXCEPT !.id = Some(2)] }

NextUpdates ==
    \E p \in Callers :
        \/ \E task \in ConcurrentUpdateInputs, io \in IoOutcomes : MUpdateStore(p, task, io)
        \/ MCache(p)
        \/ MEnqueue(p)
        \/ MReturn(p)

\* Concurrent callers of update_task on a SyncManager constructed over a fresh
\* database or over one an earlier run filled.
SpecUpdates == InitSolo /\ [][NextUpdates]_vars

\* The row is what the UPDATE of this task leaves in it.
HoldsWriteOf(row, task) == UpdatedRow(row, TaskToRow(task)) = row

\* The positions of the queue that hold an UpdateTask of this id.
UpdatesQueuedFor(id) ==
    { k \in DOMAIN operations :
        operations[k].kind = "UpdateTask" /\ OpTaskId(operations[k]) = id }

\* C35: when two update_task calls on one stored task have both completed, the
\* cached task of that id is the task whose write the store holds, and so is
\* the task of the last UpdateTask queued for the id.
C35_ConcurrentUpdatesAgreeWithStore ==
    (/\ \A p \in Callers :
          /\ mcall[p].pc = "done"
          /\ mcall[p].fn = "update_task"
          /\ mcall[p].ret.ok
     /\ mcall[1].ret.val.id = mcall[2].ret.val.id
     /\ mcall[1].ret.val.id[1] \in DOMAIN store)
    => LET id == mcall[1].ret.val.id[1]
       IN  /\ id \in DOMAIN cache
           /\ HoldsWriteOf(store[id], cache[id].task)
           /\ UpdatesQueuedFor(id) # {}
           /\ \A k \in UpdatesQueuedFor(id) :
                 (\A j \in UpdatesQueuedFor(id) : j <= k)
                    => HoldsWriteOf(store[id], operations[k].task)

\* C36: a get_tasks() call made while no mutation is in flight returns the
\* tasks list_tasks(None) gives; in particular every task the store lists is
\* in the result, with its stored field values.
C36_GetTasksMissesNoStoredTask ==
    (/\ mcall[1].pc = "done"
     /\ mcall[1].fn = "get_tasks"
     /\ mcall[1].ret.ok)
    => ListedTasks \subseteq mcall[1].ret.val

\* C37: update_task given a task whose id has no row returns an error: a
\* TaskEngine::update_task call that found no row of the id did not return Ok,
\* and no SyncManager::update_task call goes on to the cache and the queue with
\* a task whose id has no row.
C37_UpdateOfMissingRowFails ==
    /\ (/\ ecall.fn = "update_task"
        /\ ecall.before = None)
       => ~ecall.ret.ok
    /\ \A p \in Callers :
          (/\ mcall[p].pc \in {"cache", "enqueue"}
           /\ mcall[p].fn = "update_task")
          => UnwrapOr(mcall[p].task.id, 0) \in DOMAIN store

\* ------------------------------------- the locks of queue and cache together

\* The guard a caller holds is one that is never dropped
GuardLeaks(lock, p) == lock

\* Drop of the caller's guard on an RwLock.
DropGuard(lock, p) ==
    [writer |-> IF lock.writer = p THEN 0 ELSE lock.writer, readers |-> lock.readers \ {p}]

\* The LocalCache methods called, clear apart: each takes one lock.
CacheFns == {"cache_task", "update_task_sync_status", "get_cached_task", "set_last_sync"}

\* The lock a LocalCache method takes.
LockOf(fn) ==
    CASE fn \in {"cache_task", "update_task_sync_status", "get_cached_task"} -> "tasks"
      [] fn = "set_last_sync" -> "last_sync"

\* The method takes its lock with read().
TakesReadGuard(fn) == fn = "get_cached_task"

\* The order in which clear takes the write guards; it holds each to its end.
ClearOrder == <<"tasks", "documents", "last_sync">>

\* The task the cache calls of these runs are about.
LockedTask == [NewTask("a", "u1", 0) EXCEPT !.id = Some(1)]

\* What a LocalCache method does under its guard: <<tasks, documents, last_sync>>.
CacheEffect(fn) ==
    CASE fn = "cache_task" -> <<cache_task(cache, LockedTask, 1, now), documents, last_sync>>
      [] fn = "update_task_sync_status" ->
            <<update_task_sync_status(cache, 1, "Completed", now), documents, last_sync>>
      [] fn = "get_cached_task" -> <<cache, documents, last_sync>>
      [] fn = "set_last_sync" -> <<cache, documents, Some(now)>>

\* No call of caller p is under way, on the queue or on the cache.
Free(p) == qcall[p].pc \in {"idle"} /\ kcall[p].pc = "idle"

\* A caller calls a LocalCache method and waits for the first lock it takes.
KCall(p, fn) ==
    /\ Free(p)
    /\ kcall' = [kcall EXCEPT ![p] = [pc |-> "wait", fn |-> fn, held |-> 0]]
    /\ UNCHANGED <<qvars, gvars, cvars, rvars, evars, klock, store, next_rowid, cache,
                   last_sync, now, mcall, mhist>>

\* self.<field>.read().await or .write().await of a method that takes one lock
KAcquire(p) ==
    /\ kcall[p].pc = "wait"
    /\ kcall[p].fn \in CacheFns
    /\ LET l == LockOf(kcall[p].fn)
       IN  IF TakesReadGuard(kcall[p].fn)
           THEN /\ CanRead(klock[l])
                /\ klock' = [klock EXCEPT ![l].readers = @ \cup {p}]
           ELSE /\ CanWrite(klock[l])
                /\ klock' = [klock EXCEPT ![l].writer = p]
    /\ kcall' = [kcall EXCEPT ![p].pc = "locked"]
    /\ UNCHANGED <<qvars, gvars, cvars, rvars, evars, store, next_rowid, cache, last_sync,
                   now, mcall, mhist>>

\* The body of the method under its guard; the guard is dropped and the call
\* returns.
KFinish(p) ==
    /\ kcall[p].pc = "locked"
    /\ kcall[p].fn \in CacheFns
    /\ LET r == CacheEffect(kcall[p].fn)
       IN  /\ cache' = r[1]
           /\ documents' = r[2]
           /\ last_sync' = r[3]
    /\ klock' = [klock EXCEPT ![LockOf(kcall[p].fn)] = DropGuard(@, p)]
    /\ kcall' = [kcall EXCEPT ![p] = Idle]
    /\ UNCHANGED <<qvars, gvars, rvars, evars, ccall, store, next_rowid, now, mcall, mhist>>

\* clear: the next of self.tasks.write().await, self.documents.write().await,
\* self.last_sync.write().await, with the guards taken before still held
KClearAcquire(p) ==
    /\ kcall[p].pc = "wait"
    /\ kcall[p].fn = "clear"
    /\ kcall[p].held < Len(ClearOrder)
    /\ LET l == ClearOrder[kcall[p].held + 1]
       IN  /\ CanWrite(klock[l])
           /\ klock' = [klock EXCEPT ![l].writer = p]
    /\ kcall' = [kcall EXCEPT ![p].held = @ + 1]
    /\ UNCHANGED <<qvars, gvars, cvars, rvars, evars, store, next_rowid, cache, last_sync,
                   now, mcall, mhist>>

\* clear: tasks.clear(); documents.clear(); *last_sync = None; the three guards
\* are dropped and the call returns.
KClearApply(p) ==
    /\ kcall[p].pc = "wait"
    /\ kcall[p].fn = "clear"
    /\ kcall[p].held = Len(ClearOrder)
    /\ cache' = <<>>
    /\ documents' = <<>>
    /\ last_sync' = None
    /\ klock' = [l \in CacheLocks |-> DropGuard(klock[l], p)]
    /\ kcall' = [kcall EXCEPT ![p] = Idle]
    /\ UNCHANGED <<qvars, gvars, rvars, evars, ccall, store, next_rowid, now, mcall, mhist>>

\* The OfflineQueue methods called in these runs.
LockedQueueFns == {"enqueue", "get_pending_operations", "remove_operations", "clear", "len"}

\* One step of caller p in a call on the queue
QueueStep(p) ==
    \/ \E operation \in {[kind |-> "CreateTask", task_id |-> 1]} : EnqAcquire(p, operation)
    \/ EnqCheck(p)
    \/ EnqPush(p)
    \/ \E indices \in {<<0>>} : RmAcquire(p, indices)
    \/ RmApply(p)
    \/ RmReturn(p)
    \/ ClearAcquire(p)
    \/ ClearApply(p)
    \/ ReadAcquire(p)
    \/ ReadFinish(p)
    \/ ReadReturn(p)

\* One step of caller p in a call on the cache
CacheStep(p) ==
    \/ KAcquire(p)
    \/ KFinish(p)
    \/ KClearAcquire(p)
    \/ KClearApply(p)

NextLocks ==
    \E p \in Callers :
        \/ \E fn \in LockedQueueFns : Free(p) /\ QueueCall(p, fn)
        \/ \E fn \in CacheFns \cup {"clear"} : KCall(p, fn)
        \/ QueueStep(p)
        \/ CacheStep(p)

\* OfflineQueue::new(max_operations) with capacity 0 or 1, and LocalCache::new()
InitLocks == InitQueue /\ max_operations <= 1

\* Concurrent callers of one OfflineQueue and one LocalCache.
SpecLocks == InitLocks /\ [][NextLocks]_vars

\* The scheduler runs every caller that can take a step, and a tokio RwLock
\* serves its waiters in the order they came: no waiter is passed over for ever.
FairLocks ==
    \A p \in Callers :
        /\ SF_vars(QueueStep(p))
        /\ SF_vars(CacheStep(p))

SpecLocksFair == SpecLocks /\ FairLocks

\* Caller p is inside a call on the queue or on the cache.
InCall(p) == ~Free(p) /\ qcall[p].pc # "panicked"

\* The call of caller p is over: it returned, or it is the enqueue that
\* Vec::remove(0) aborted on an empty queue of capacity 0, its guard dropped.
CallOver(p) == Free(p) \/ qcall[p].pc = "panicked"

\* C38: under fair scheduling no interleaving of calls on the OfflineQueue and
\* the LocalCache deadlocks: every call that has started gets the locks it
\* waits for and comes to its end.
C38_EveryCallEnds ==
    \A p \in Callers : InCall(p) ~> CallOver(p)

\* One caller is inside clear with the tasks guard taken while the other waits
\* for the tasks lock in cache_task.
C38_Witness ==
    /\ kcall[1].pc = "wait" /\ kcall[1].fn = "clear" /\ kcall[1].held = 2
    /\ kcall[2].pc = "wait" /\ kcall[2].fn = "cache_task"
    /\ klock["tasks"].writer = 1

\* ------------------------------------------------- claims on the queue's edges

\* C39: for every capacity, 0 included, enqueue returns Ok without aborting and
\* leaves at most max(capacity, 0) operations in the queue.
C39_EnqueueNeverAbortsAndKeepsBound ==
    /\ \A p \in Callers : qcall[p].pc # "panicked"
    /\ NoEnqueueInFlight => Len(operations) <= max_operations

\* C40: remove_operations is insensitive to repeated indices: whatever the index
\* list, repeats included, it removes exactly the entries at the listed in-range
\* positions of the queue as it was before the call, and no entry whose
\* position is not in the list.
C40_RepeatedIndexRemovesOnce ==
    \A p \in Callers :
        qcall[p].pc = "rm_done"
        => operations = KeepFrom(qcall[p].before, Range(qcall[p].indices), 1)

====
